---- MODULE Spec2Model ----
(***************************************************************************)
(* A model of the medical-report application (src/app.py): the text        *)
(* extraction chain, the structured lab-data extractor, and the            *)
(* process-wide session store with its chat, ingestion, clear and          *)
(* persistence operations.                                                 *)
(*                                                                         *)
(* The specifications share the variables:                                 *)
(*   SpecExtract  one call of extract_text_from_pdf, strategy by strategy  *)
(*   SpecLab      one call of extract_lab_data_with_gemini, step by step   *)
(*   SpecSummary  one call of calculate_lab_summary, record by record      *)
(*   SpecGenerate one call of generate_gemini_response, model by model     *)
(*   SpecExport   one export_results request on a store                    *)
(*   SpecLoad     load_sessions at process start on any backing file       *)
(*   Spec         the session store under concurrent request handlers      *)
(*   SpecSequential  the session store under requests one at a time        *)
(***************************************************************************)
EXTENDS Integers, Sequences, FiniteSets, TLC

VARIABLES
    ex,             \* the running extract_text_from_pdf call
    lab,            \* the running extract_lab_data_with_gemini call
    call,           \* the running call of one of the other functions
    session_data,   \* app.py:57, the process-wide dict: session id -> record
    heap,           \* the list objects that conversation_history values refer to
    disk,           \* SESSION_FILE, app.py:60
    threads,        \* the chat request handlers in flight
    api_key,        \* GEMINI_API_KEY, app.py:46
    issued,         \* session ids that exist or existed (uuid4 never repeats)
    budget,         \* how many more requests of each kind the environment sends
    appended,       \* history: all turns chat requests appended, per session record
    completed,      \* history: chat requests that returned success, per session record
    last            \* history: the operation that took the last step, and its outcome

vars == <<ex, lab, call, session_data, heap, disk, threads, api_key, issued, budget,
          appended, completed, last>>

storeVars == <<session_data, heap, disk, threads, api_key, issued, budget,
               appended, completed, last>>

\* No call of calculate_lab_summary, generate_gemini_response, export_results
\* or load_sessions is under study.
NoCall == [fn |-> "none"]

\* What a step of such a call leaves alone.
CallFrame == UNCHANGED <<ex, lab, storeVars>>

(***************************************************************************)
(* Text: a Python str is a sequence of one-character strings.              *)
(***************************************************************************)
Whitespace == {" ", "\n"}

\* str.strip() leaves nothing: every character is whitespace.
IsBlank(text) == \A i \in 1..Len(text) : text[i] \in Whitespace

\* str.strip(): drop the leading and the trailing whitespace.
strip(text) ==
    IF IsBlank(text) THEN <<>>
    ELSE LET first == CHOOSE i \in 1..Len(text) :
                        /\ text[i] \notin Whitespace
                        /\ \A j \in 1..(i - 1) : text[j] \in Whitespace
             lastc == CHOOSE i \in 1..Len(text) :
                        /\ text[i] \notin Whitespace
                        /\ \A j \in (i + 1)..Len(text) : text[j] \in Whitespace
         IN  SubSeq(text, first, lastc)

(***************************************************************************)
(* extract_text_from_pdf, app.py:174-213.                                  *)
(*                                                                         *)
(* A document is what each library does with it, page by page: a page      *)
(* either raises or yields a text.  A library may also be absent           *)
(* (app.py:23-38).                                                         *)
(***************************************************************************)
MaxPages == 2

Raises == [ok |-> FALSE, text |-> <<>>]
Yields(t) == [ok |-> TRUE, text |-> t]

\* A page raises, yields nothing, or yields a letter; pdfplumber, which tests
\* the page text (app.py:196), may also yield a blank that is not empty.
PageOutcomes(letter) ==
    {Raises, Yields(<<>>), Yields(<<letter>>)}
    \cup (IF letter = "b" THEN {Yields(<<" ">>)} ELSE {})

PagesOf(letter) == UNION {[1..n -> PageOutcomes(letter)] : n \in 0..MaxPages}

\* A document has the same number of pages whichever library reads it.
Documents ==
    {d \in [PyPDF2 : PagesOf("a"), pdfplumber : PagesOf("b"), ocr : PagesOf("c")] :
        /\ Len(d.PyPDF2) = Len(d.pdfplumber)
        /\ Len(d.pdfplumber) = Len(d.ocr)}

Availability == [PyPDF2 : BOOLEAN, pdfplumber : BOOLEAN, ocr : BOOLEAN]

\* app.py:183-184: text += page.extract_text() + "\n"; a page that raises leaves
\* the loop with the pages before it already in text.
RECURSIVE PyPDF2Pages(_, _, _)
PyPDF2Pages(text, pages, i) ==
    IF i > Len(pages) THEN [text |-> text, raised |-> FALSE]
    ELSE IF ~pages[i].ok THEN [text |-> text, raised |-> TRUE]
    ELSE PyPDF2Pages(text \o pages[i].text \o <<"\n">>, pages, i + 1)

\* app.py:194-197: a falsy page_text (None or "") adds nothing.
RECURSIVE PdfplumberPages(_, _, _)
PdfplumberPages(text, pages, i) ==
    IF i > Len(pages) THEN [text |-> text, raised |-> FALSE]
    ELSE IF ~pages[i].ok THEN [text |-> text, raised |-> TRUE]
    ELSE PdfplumberPages(
            IF pages[i].text = <<>> THEN text ELSE text \o pages[i].text \o <<"\n">>,
            pages, i + 1)

\* app.py:206-208: text += pytesseract.image_to_string(page) + "\n".
RECURSIVE OcrPages(_, _, _)
OcrPages(text, pages, i) ==
    IF i > Len(pages) THEN [text |-> text, raised |-> FALSE]
    ELSE IF ~pages[i].ok THEN [text |-> text, raised |-> TRUE]
    ELSE OcrPages(text \o pages[i].text \o <<"\n">>, pages, i + 1)

\* Method 1, app.py:179-188: returns only when the loop ended and text.strip()
\* is non-empty; otherwise falls through with whatever text holds.
Method1(text, doc) ==
    LET r == PyPDF2Pages(text, doc.PyPDF2, 1)
    IN  [text |-> r.text, returned |-> ~r.raised /\ ~IsBlank(r.text)]

\* Method 2 without the early return of app.py:198-199.
Method2NoReturn(text, doc) ==
    LET r == PdfplumberPages(text, doc.pdfplumber, 1)
    IN  [text |-> r.text, returned |-> FALSE]

\* Method 2, app.py:191-201: appends to the same text variable.
Method2(text, doc) ==
    LET r == PdfplumberPages(text, doc.pdfplumber, 1)
    IN  [text |-> r.text, returned |-> ~r.raised /\ ~IsBlank(r.text)]

\* Method 3, app.py:204-211: returns text when the loop ended, blank or not.
Method3(text, doc) ==
    LET r == OcrPages(text, doc.ocr, 1)
    IN  [text |-> r.text, returned |-> ~r.raised]

\* The whole function, app.py:174-213.
extract_text_from_pdf(doc, avail) ==
    LET m1 == IF avail.PyPDF2 THEN Method1(<<>>, doc)
              ELSE [text |-> <<>>, returned |-> FALSE]
        m2 == IF avail.pdfplumber THEN Method2(m1.text, doc)
              ELSE [text |-> m1.text, returned |-> FALSE]
        m3 == IF avail.ocr THEN Method3(m2.text, doc)
              ELSE [text |-> m2.text, returned |-> FALSE]
    IN  IF m1.returned THEN m1.text
        ELSE IF m2.returned THEN m2.text
        ELSE m3.text

\* The call in progress: pc is the statement about to run, invoked the
\* strategies whose library was called so far, in order.
ExIdle == [pc |-> "idle", doc |-> <<>>, avail |-> <<>>, text |-> <<>>,
           invoked |-> <<>>, result |-> <<>>]

ExStart(doc, avail) ==
    [pc |-> "method1", doc |-> doc, avail |-> avail, text |-> <<>>,
     invoked |-> <<>>, result |-> <<>>]

ExtractInit ==
    \E d \in Documents, a \in Availability : ex = ExStart(d, a)

\* What a step of the call leaves alone.
ExFrame == UNCHANGED <<lab, call, storeVars>>

\* app.py:179-188
TryPyPDF2 ==
    /\ ExFrame
    /\ ex.pc = "method1"
    /\ IF ex.avail.PyPDF2
       THEN LET m == Method1(ex.text, ex.doc)
            IN  ex' = [ex EXCEPT !.text = m.text,
                                 !.invoked = Append(@, "PyPDF2"),
                                 !.pc = IF m.returned THEN "done" ELSE "method2",
                                 !.result = IF m.returned THEN m.text ELSE @]
       ELSE ex' = [ex EXCEPT !.pc = "method2"]

\* app.py:191-201
TryPdfplumber ==
    /\ ExFrame
    /\ ex.pc = "method2"
    /\ IF ex.avail.pdfplumber
       THEN LET m == Method2(ex.text, ex.doc)
            IN  ex' = [ex EXCEPT !.text = m.text,
                                 !.invoked = Append(@, "pdfplumber"),
                                 !.pc = IF m.returned THEN "done" ELSE "method3",
                                 !.result = IF m.returned THEN m.text ELSE @]
       ELSE ex' = [ex EXCEPT !.pc = "method3"]

\* app.py:204-211
TryOcr ==
    /\ ExFrame
    /\ ex.pc = "method3"
    /\ IF ex.avail.ocr
       THEN LET m == Method3(ex.text, ex.doc)
            IN  ex' = [ex EXCEPT !.text = m.text,
                                 !.invoked = Append(@, "ocr"),
                                 !.pc = IF m.returned THEN "done" ELSE "fallthrough",
                                 !.result = IF m.returned THEN m.text ELSE @]
       ELSE ex' = [ex EXCEPT !.pc = "fallthrough"]

\* app.py:213
ReturnText ==
    /\ ExFrame
    /\ ex.pc = "fallthrough"
    /\ ex' = [ex EXCEPT !.pc = "done", !.result = ex.text]

(***************************************************************************)
(* extract_lab_data_with_gemini, app.py:514-618.                           *)
(*                                                                         *)
(* The service's response is a sequence of tokens.  A token is a fence     *)
(* marker, the json tag, a newline, a prose word, a bracket, a comma, or a *)
(* JSON value without brackets of its own (an object, null, a number, a    *)
(* string), named and described by ObjectOf and AtomType.                  *)
(***************************************************************************)
MaxElems == 2

\* The fence marker of markdown: three backquote characters.
Fence == "fence"
JsonTag == "json"
Newline == "\n"
ProseWord == "p"
LBracket == "["
RBracket == "]"
Comma == ","

\* The five keys of app.py:582.
RequiredKeys == {"test", "value", "unit", "range", "status"}

\* JSON values as Python sees them after json.loads.
\* A number is kept as its literal.
IntVal(n) == [type |-> "int", v |-> n]
FloatVal(n) == [type |-> "float", v |-> n]
StrVal(s) == [type |-> "str", v |-> s]
NullVal == [type |-> "NoneType", v |-> "None"]

\* An integer literal beyond the range of a double: 1 followed by 400 zeros.
HugeInt == IntVal("10^400")

ObjectTokens == {"o1", "o2", "oMissing", "oNA", "oNullValue", "oHuge", "oNullStatus"}

\* The objects the service may put into its array.
ObjectOf(tok) ==
    CASE tok = "o1" ->
            [test |-> StrVal("Glucose"), value |-> IntVal("110"), unit |-> StrVal("mg/dL"),
             range |-> StrVal("70-100"), status |-> StrVal("SLIGHTLY_ABNORMAL")]
      [] tok = "o2" ->
            [test |-> StrVal("TSH"), value |-> StrVal("4.5"), unit |-> StrVal("mIU/L"),
             range |-> StrVal("0.4-4.0"), status |-> StrVal("normal")]
      [] tok = "oMissing" ->
            [test |-> StrVal("HDL"), value |-> IntVal("50"),
             range |-> StrVal(">40"), status |-> StrVal("NORMAL")]
      [] tok = "oNA" ->
            [test |-> StrVal("LDL"), value |-> StrVal("N/A"), unit |-> StrVal("mg/dL"),
             range |-> StrVal("<100"), status |-> StrVal("CRITICAL")]
      [] tok = "oNullValue" ->
            [test |-> StrVal("B12"), value |-> NullVal, unit |-> StrVal("pg/mL"),
             range |-> StrVal("200-900"), status |-> StrVal("NORMAL")]
      [] tok = "oHuge" ->
            [test |-> StrVal("WBC"), value |-> HugeInt, unit |-> StrVal("/uL"),
             range |-> StrVal("4000-11000"), status |-> StrVal("CRITICAL")]
      [] tok = "oNullStatus" ->
            [test |-> StrVal("Iron"), value |-> FloatVal("61.0"), unit |-> StrVal("ug/dL"),
             range |-> StrVal("60-170"), status |-> NullVal]

\* Values that are no objects: null, a number, a string.
ScalarTokens == {"null", "7", "str"}

AtomTokens == ObjectTokens \cup ScalarTokens

AtomType(tok) ==
    IF tok \in ObjectTokens THEN "dict"
    ELSE IF tok = "null" THEN "NoneType"
    ELSE IF tok = "7" THEN "int"
    ELSE "str"

\* str.strip() on tokens: a newline token is the only whitespace.
stripTokens(toks) ==
    IF \A i \in 1..Len(toks) : toks[i] = Newline THEN <<>>
    ELSE LET first == CHOOSE i \in 1..Len(toks) :
                        /\ toks[i] # Newline
                        /\ \A j \in 1..(i - 1) : toks[j] = Newline
             lastt == CHOOSE i \in 1..Len(toks) :
                        /\ toks[i] # Newline
                        /\ \A j \in (i + 1)..Len(toks) : toks[j] = Newline
         IN  SubSeq(toks, first, lastt)

\* The positions of token tok in toks.
Positions(toks, tok) == {i \in 1..Len(toks) : toks[i] = tok}

Min(S) == CHOOSE x \in S : \A y \in S : x <= y
Max(S) == CHOOSE x \in S : \A y \in S : x >= y

\* The first position from i on that holds no newline (Len + 1 if none): \s*.
RECURSIVE SkipWs(_, _)
SkipWs(toks, i) ==
    IF i <= Len(toks) /\ toks[i] = Newline THEN SkipWs(toks, i + 1) ELSE i

\* app.py:560-562: the pattern is a fence, an optional json tag, optional
\* whitespace, a shortest group 1, and a fence.  It matches at the first fence
\* when a second fence follows it; group 1 runs from after the tag and the
\* whitespace to the second fence, and is stripped.
FencedContent(toks) ==
    LET f1 == Min(Positions(toks, Fence))
        f2 == Min({i \in Positions(toks, Fence) : i > f1})
        afterTag == IF f1 + 1 <= Len(toks) /\ toks[f1 + 1] = JsonTag THEN f1 + 2 ELSE f1 + 1
        start == SkipWs(toks, afterTag)
    IN  stripTokens(SubSeq(toks, start, f2 - 1))

\* app.py:565-566, reached with exactly one fence in the text: the first
\* substitution deletes the fence, the rest of its line and the line's newline;
\* the second substitution then finds no fence left.
RECURSIVE LineEnd(_, _)
LineEnd(toks, i) ==
    IF i <= Len(toks) /\ toks[i] # Newline THEN LineEnd(toks, i + 1) ELSE i

RemoveFenceLines(toks) ==
    LET f == Min(Positions(toks, Fence))
        e == LineEnd(toks, f + 1)
        next == IF e <= Len(toks) THEN e + 1 ELSE e
    IN  SubSeq(toks, 1, f - 1) \o SubSeq(toks, next, Len(toks))

\* app.py:557-566
CleanMarkdown(toks) ==
    IF Positions(toks, Fence) = {} THEN toks
    ELSE IF Cardinality(Positions(toks, Fence)) >= 2 THEN FencedContent(toks)
    ELSE RemoveFenceLines(toks)

\* The text as it is, without the slicing of app.py:569-573.
SliceArrayNone(toks) == toks

\* app.py:569-573: from the first '[' to the last ']' when both exist (an empty
\* slice when the last ']' comes before the first '[').
SliceArray(toks) ==
    IF Positions(toks, LBracket) # {} /\ Positions(toks, RBracket) # {}
    THEN SubSeq(toks, Min(Positions(toks, LBracket)), Max(Positions(toks, RBracket)))
    ELSE toks

(***************************************************************************)
(* json.loads (app.py:576) on tokens.  A parse result is                   *)
(* [ok, val, next]; a value is an atom or an array of values.              *)
(***************************************************************************)
Atom(tok) == [type |-> "atom", tok |-> tok]
Array(items) == [type |-> "array", items |-> items]
ParseFail == [ok |-> FALSE, val |-> Atom("null"), next |-> 0]

RECURSIVE ParseValue(_, _)
RECURSIVE ParseItems(_, _, _)

\* One JSON value starting at or after position i.
ParseValue(toks, i) ==
    LET j == SkipWs(toks, i)
    IN  IF j > Len(toks) THEN ParseFail
        ELSE IF toks[j] \in AtomTokens THEN [ok |-> TRUE, val |-> Atom(toks[j]), next |-> j + 1]
        ELSE IF toks[j] = LBracket
             THEN LET k == SkipWs(toks, j + 1)
                  IN  IF k <= Len(toks) /\ toks[k] = RBracket
                      THEN [ok |-> TRUE, val |-> Array(<<>>), next |-> k + 1]
                      ELSE ParseItems(toks, j + 1, <<>>)
        ELSE ParseFail

\* The items of an array after its '[' or after a ',': a value, then ',' or ']'.
ParseItems(toks, i, acc) ==
    LET v == ParseValue(toks, i)
    IN  IF ~v.ok THEN ParseFail
        ELSE LET k == SkipWs(toks, v.next)
             IN  IF k > Len(toks) THEN ParseFail
                 ELSE IF toks[k] = RBracket
                      THEN [ok |-> TRUE, val |-> Array(Append(acc, v.val)), next |-> k + 1]
                 ELSE IF toks[k] = Comma THEN ParseItems(toks, k + 1, Append(acc, v.val))
                 ELSE ParseFail

\* json.loads: one value and nothing but whitespace after it, else JSONDecodeError.
json_loads(toks) ==
    LET v == ParseValue(toks, 1)
    IN  IF v.ok /\ SkipWs(toks, v.next) > Len(toks)
        THEN [ok |-> TRUE, val |-> v.val]
        ELSE [ok |-> FALSE, val |-> Atom("null")]

(***************************************************************************)
(* The validation loop, app.py:579-591.                                    *)
(***************************************************************************)
\* float(x), app.py:585: the number, or the exception it raises.
float(x) ==
    CASE x = HugeInt -> [exc |-> "OverflowError", val |-> x]
      [] x.type = "int" /\ x # HugeInt -> [exc |-> "none", val |-> FloatVal(x.v)]
      [] x.type = "float" -> [exc |-> "none", val |-> x]
      [] x.type = "str" /\ x.v = "4.5" -> [exc |-> "none", val |-> FloatVal("4.5")]
      [] x.type = "str" /\ x.v # "4.5" -> [exc |-> "ValueError", val |-> x]
      [] x.type = "NoneType" -> [exc |-> "TypeError", val |-> x]

\* all(key in item for key in [...]), app.py:582: the answer, or TypeError when
\* item is no container (None, a number).  A string is searched for substrings
\* and a list for members; neither holds the five keys here.
HasAllKeys(item) ==
    IF item.type = "array" THEN [exc |-> "none", val |-> FALSE]
    ELSE IF AtomType(item.tok) = "dict"
         THEN [exc |-> "none", val |-> RequiredKeys \subseteq DOMAIN ObjectOf(item.tok)]
    ELSE IF AtomType(item.tok) = "str" THEN [exc |-> "none", val |-> FALSE]
    ELSE [exc |-> "TypeError", val |-> FALSE]

\* The exceptions the inner handler of app.py:587 catches.
InnerCaught == {"ValueError", "TypeError"}

\* item['value'] = float(item['value']), app.py:585.
WithFloatValue(obj, f) == [k \in DOMAIN obj |-> IF k = "value" THEN f ELSE obj[k]]

\* The loop of app.py:581-588 from item i on: the validated list, or the
\* exception that leaves the loop.
RECURSIVE ValidateFrom(_, _, _)
ValidateFrom(items, i, validated_data) ==
    IF i > Len(items) THEN [exc |-> "none", val |-> validated_data]
    ELSE LET has == HasAllKeys(items[i])
         IN  IF has.exc # "none" THEN [exc |-> has.exc, val |-> <<>>]
             ELSE IF ~has.val THEN ValidateFrom(items, i + 1, validated_data)
             ELSE LET obj == ObjectOf(items[i].tok)
                      f == float(obj.value)
                  IN  IF f.exc = "none"
                      THEN ValidateFrom(items, i + 1,
                                        Append(validated_data, WithFloatValue(obj, f.val)))
                      ELSE IF f.exc \in InnerCaught
                      THEN ValidateFrom(items, i + 1, validated_data)
                      ELSE [exc |-> f.exc, val |-> <<>>]

\* app.py:579-591: a list is validated, anything else gives [].
ValidateStructure(parsed) ==
    IF parsed.type = "array" THEN ValidateFrom(parsed.items, 1, <<>>)
    ELSE [exc |-> "none", val |-> <<>>]

\* The fallback demo data of app.py:598-615.
DemoData ==
    <<[test |-> StrVal("Glucose"), value |-> IntVal("110"), unit |-> StrVal("mg/dL"),
       range |-> StrVal("70-100"), status |-> StrVal("SLIGHTLY_ABNORMAL"),
       explanation |-> StrVal("Blood sugar level - slightly elevated")],
      [test |-> StrVal("Cholesterol"), value |-> IntVal("280"), unit |-> StrVal("mg/dL"),
       range |-> StrVal("<200"), status |-> StrVal("CRITICAL"),
       explanation |-> StrVal("Total cholesterol - high risk for heart disease")]>>

\* The handlers of app.py:593-595 and 616-618: every Exception gives [].
ExceptionsCaught == {"ServiceError", "JSONDecodeError", "ValueError", "TypeError",
                     "OverflowError"}

\* Handlers that catch the parser's exception only.
OnExceptionNarrow(exc) ==
    IF exc = "JSONDecodeError"
    THEN [outcome |-> "returned", data |-> <<>>]
    ELSE [outcome |-> "raised", data |-> <<>>]

\* What the function does with an exception raised inside its try blocks.
OnException(exc) ==
    IF exc \in ExceptionsCaught
    THEN [outcome |-> "returned", data |-> <<>>]
    ELSE [outcome |-> "raised", data |-> <<>>]

\* A service reply: the call raises, or returns a text.
ServiceRaises == [ok |-> FALSE, text |-> <<>>]
ServiceReturns(toks) == [ok |-> TRUE, text |-> toks]

\* The whole function, app.py:514-618: [outcome, data].
extract_lab_data_with_gemini(key, reply) ==
    IF ~key THEN [outcome |-> "returned", data |-> DemoData]
    ELSE IF ~reply.ok THEN OnException("ServiceError")
    ELSE LET sliced == SliceArray(CleanMarkdown(stripTokens(reply.text)))
             parsed == json_loads(sliced)
         IN  IF ~parsed.ok THEN OnException("JSONDecodeError")
             ELSE LET v == ValidateStructure(parsed.val)
                  IN  IF v.exc # "none" THEN OnException(v.exc)
                      ELSE [outcome |-> "returned", data |-> v.val]

(***************************************************************************)
(* The responses the service is given to return: a payload, bare or inside *)
(* a fenced block, between a leading and a trailing prose.                 *)
(***************************************************************************)
Prose == {<<>>, <<ProseWord>>, <<LBracket, ProseWord, RBracket>>}

Wrappers == {"bare", "fenced", "fenced_json", "unclosed"}

\* An element of the payload array: a value of AtomTokens or a nested array.
Elements == AtomTokens \cup {"nested"}

ElementLists == UNION {[1..n -> Elements] : n \in 0..MaxElems}

Payloads ==
    [kind : {"array"}, elems : ElementLists]
    \cup [kind : {"object", "trailing_comma", "unterminated", "empty"}, elems : {<<>>}]

ResponseShapes == [lead : Prose, wrap : Wrappers, payload : Payloads, trail : Prose]

RenderElement(e) == IF e = "nested" THEN <<LBracket, "7", RBracket>> ELSE <<e>>

RECURSIVE RenderElements(_, _)
RenderElements(elems, i) ==
    IF i > Len(elems) THEN <<>>
    ELSE RenderElement(elems[i])
         \o (IF i < Len(elems) THEN <<Comma>> ELSE <<>>)
         \o RenderElements(elems, i + 1)

RenderPayload(p) ==
    CASE p.kind = "array" -> <<LBracket>> \o RenderElements(p.elems, 1) \o <<RBracket>>
      [] p.kind = "object" -> <<"o1">>
      [] p.kind = "trailing_comma" -> <<LBracket, "o1", Comma, RBracket>>
      [] p.kind = "unterminated" -> <<LBracket, "o1">>
      [] p.kind = "empty" -> <<>>

RenderResponse(shape) ==
    LET body == RenderPayload(shape.payload)
        wrapped ==
            CASE shape.wrap = "bare" -> body
              [] shape.wrap = "fenced" -> <<Fence, Newline>> \o body \o <<Newline, Fence>>
              [] shape.wrap = "fenced_json" ->
                    <<Fence, JsonTag, Newline>> \o body \o <<Newline, Fence>>
              [] shape.wrap = "unclosed" -> <<Fence, JsonTag, Newline>> \o body
    IN  (IF shape.lead = <<>> THEN <<>> ELSE shape.lead \o <<Newline>>)
        \o wrapped
        \o (IF shape.trail = <<>> THEN <<>> ELSE <<Newline>> \o shape.trail)

\* The call in progress.  shape is how the reply was built (history), calls
\* and parses count the service calls and the json.loads calls made.
LabIdle == [pc |-> "idle", shape |-> <<>>, reply |-> ServiceRaises, text |-> <<>>,
            parsed |-> Atom("null"), calls |-> 0, parses |-> 0,
            outcome |-> "none", data |-> <<>>]

LabStart(shape, reply) == [LabIdle EXCEPT !.pc = "call", !.shape = shape, !.reply = reply]

LabFinish(l, r) == [l EXCEPT !.pc = "done", !.outcome = r.outcome, !.data = r.data]

\* What a step of the call leaves alone.
LabFrame == UNCHANGED <<ex, call, storeVars>>

\* app.py:547-553: without a key the demo data; else one call of the service.
LabCall ==
    /\ LabFrame
    /\ lab.pc = "call"
    /\ IF ~api_key
       THEN lab' = LabFinish(lab, extract_lab_data_with_gemini(FALSE, lab.reply))
       ELSE IF ~lab.reply.ok
       THEN lab' = LabFinish([lab EXCEPT !.calls = @ + 1], OnException("ServiceError"))
       ELSE lab' = [lab EXCEPT !.calls = @ + 1, !.pc = "clean",
                               !.text = stripTokens(lab.reply.text)]

\* app.py:557-566
LabClean ==
    /\ LabFrame
    /\ lab.pc = "clean"
    /\ lab' = [lab EXCEPT !.pc = "slice", !.text = CleanMarkdown(@)]

\* app.py:569-573
LabSlice ==
    /\ LabFrame
    /\ lab.pc = "slice"
    /\ lab' = [lab EXCEPT !.pc = "parse", !.text = SliceArray(@)]

\* app.py:576
LabParse ==
    /\ LabFrame
    /\ lab.pc = "parse"
    /\ LET r == json_loads(lab.text)
       IN  IF r.ok
           THEN lab' = [lab EXCEPT !.parses = @ + 1, !.pc = "validate", !.parsed = r.val]
           ELSE lab' = LabFinish([lab EXCEPT !.parses = @ + 1],
                                 OnException("JSONDecodeError"))

\* app.py:579-595
LabValidate ==
    /\ LabFrame
    /\ lab.pc = "validate"
    /\ LET v == ValidateStructure(lab.parsed)
       IN  lab' = LabFinish(lab, IF v.exc # "none" THEN OnException(v.exc)
                                 ELSE [outcome |-> "returned", data |-> v.val])

(***************************************************************************)
(* generate_gemini_response, app.py:262-349.                               *)
(***************************************************************************)
\* The model identifiers with the first two in the other order.
ModelsSwapped == <<"gemini-1.5-flash", "gemini-2.0-flash", "gemini-1.5-pro", "gemini-pro">>

\* The model identifiers in the order of app.py:323, 329, 334, 339.
Models == <<"gemini-2.0-flash", "gemini-1.5-flash", "gemini-1.5-pro", "gemini-pro">>

ModelSet == {Models[i] : i \in 1..Len(Models)}

\* A handler of the re-raised error that lets it leave the function.
OnModelErrorEscapes(model) ==
    [outcome |-> "raised", kind |-> "none", model |-> model, invoked |-> Models]

\* app.py:343 and 348-349: the error of the first model, re-raised when the
\* last model failed, is caught and becomes the apology that embeds it.
OnModelError(model) ==
    [outcome |-> "returned", kind |-> "apology", model |-> model, invoked |-> Models]

\* app.py:346: the message returned when no key is configured.
NotConfigured ==
    [outcome |-> "returned", kind |-> "not_configured", model |-> "none", invoked |-> <<>>]

\* app.py:325, 331, 336, 341: the text of model k.
ReplyOf(k) ==
    [outcome |-> "returned", kind |-> "reply", model |-> Models[k],
     invoked |-> SubSeq(Models, 1, k)]

\* The whole function: the text of the first model that does not fail; when
\* all fail the apology; without a key the not-configured message.  invoked
\* lists the models called.
generate_gemini_response(key, failing) ==
    IF ~key THEN NotConfigured
    ELSE IF \A i \in 1..Len(Models) : Models[i] \in failing
    THEN OnModelError(Models[1])
    ELSE ReplyOf(Min({i \in 1..Len(Models) : Models[i] \notin failing}))

\* The call in progress, statement by statement.  prompt is the system prompt
\* of app.py:266-317, told by the language and the message put into it; k is
\* the model about to be tried; invoked lists the calls made, each with the
\* prompt it was given.
GenLanguages == {"English", "Hindi"}
GenMessages == {<<"h", "i">>, <<"?">>}

GenStart(key, failing, language, message) ==
    [fn |-> "generate_gemini_response", pc |-> "build_prompt", key |-> key,
     failing |-> failing, language |-> language, message |-> message,
     prompt |-> <<>>, k |-> 1, invoked |-> <<>>, result |-> NotConfigured]

\* app.py:265-320 and 344-346
GenBuildPrompt ==
    /\ CallFrame
    /\ call.fn = "generate_gemini_response"
    /\ call.pc = "build_prompt"
    /\ LET c == [call EXCEPT !.prompt = <<call.language>> \o call.message]
       IN  IF call.key
           THEN call' = [c EXCEPT !.pc = "try_model"]
           ELSE call' = [c EXCEPT !.pc = "done", !.result = NotConfigured]

\* app.py:321-342: model k is called with the prompt; its text is returned,
\* or its failure leads to the next model, after the last to the re-raise.
GenTryModel ==
    /\ CallFrame
    /\ call.fn = "generate_gemini_response"
    /\ call.pc = "try_model"
    /\ LET c == [call EXCEPT !.invoked = Append(@, [model |-> Models[call.k],
                                                    prompt |-> call.prompt])]
       IN  IF Models[call.k] \notin call.failing
           THEN call' = [c EXCEPT !.pc = "done", !.result = ReplyOf(call.k)]
           ELSE IF call.k < Len(Models)
           THEN call' = [c EXCEPT !.k = @ + 1]
           ELSE call' = [c EXCEPT !.pc = "reraise"]

\* app.py:343 and 348-349
GenApologize ==
    /\ CallFrame
    /\ call.fn = "generate_gemini_response"
    /\ call.pc = "reraise"
    /\ call' = [call EXCEPT !.pc = "done", !.result = OnModelError(Models[1])]

(***************************************************************************)
(* The session store, app.py:56-83.                                        *)
(*                                                                         *)
(* session_data is a dict: a function whose domain is the set of session   *)
(* ids present.  A record is a dict too: a function on the keys it has.    *)
(* The value of conversation_history is a reference to a list object:      *)
(* heap maps the reference to the list's turns.                            *)
(***************************************************************************)
\* app.py:248: the cap on the turns kept.
HistoryCap == 20

MaxLists == 6
MaxChats == 2
MaxUploads == 1
MaxClears == 1
MaxRestarts == 1
MaxHandlers == 2

SessionSeq == <<"s1", "s2">>
SessionIds == {SessionSeq[i] : i \in 1..Len(SessionSeq)}
ThreadOrder == <<"t1", "t2", "t3">>
Threads == {ThreadOrder[i] : i \in 1..Len(ThreadOrder)}
ListIds == 1..MaxLists
NoList == 0

\* dict assignment d[k] = v, and del d[k].
SetKey(d, k, v) == [x \in DOMAIN d \cup {k} |-> IF x = k THEN v ELSE d[x]]
DelKey(d, k) == [x \in DOMAIN d \ {k} |-> d[x]]

HasHistory(rec) == "conversation_history" \in DOMAIN rec

\* The list objects something refers to: records of the store and the local
\* variable conversation_history of the handlers in flight.
Referenced(sd, th) ==
    ({sd[s].conversation_history : s \in {x \in DOMAIN sd : HasHistory(sd[x])}}
     \cup {th[t].conv : t \in Threads}) \ {NoList}

\* Reference counting: a list nothing refers to is gone.
Collect(h, sd, th) == [i \in ListIds |-> IF i \in Referenced(sd, th) THEN h[i] ELSE <<>>]

\* A new list object: an identifier nothing refers to.
FreshList(sd, th) == Min(ListIds \ Referenced(sd, th))

\* A slice that keeps one turn more.
LastTurnsOneMore(turns, n) ==
    IF Len(turns) <= n + 1 THEN turns ELSE SubSeq(turns, Len(turns) - n, Len(turns))

\* conversation_history[-20:], app.py:249.
LastTurns(turns, n) ==
    IF Len(turns) <= n THEN turns ELSE SubSeq(turns, Len(turns) - n + 1, Len(turns))

UserTurn(req, content) == [role |-> "user", req |-> req, content |-> content]
AssistantTurn(req, content) == [role |-> "assistant", req |-> req, content |-> content]

\* json.dump writes every number without a decimal point.
DumpValuePlain(x) ==
    CASE x.type \in {"float", "int"} -> [json |-> "number", text |-> x.v, point |-> FALSE]
      [] x.type = "str" -> [json |-> "string", text |-> x.v, point |-> FALSE]
      [] x.type = "NoneType" -> [json |-> "null", text |-> "null", point |-> FALSE]

\* json.dump of a value of a lab result, app.py:78: a float is written with
\* a decimal point or an exponent (float.__repr__), an int without, a str
\* between quotes, None as null.
DumpValue(x) ==
    CASE x.type = "float" -> [json |-> "number", text |-> x.v, point |-> TRUE]
      [] x.type = "int" -> [json |-> "number", text |-> x.v, point |-> FALSE]
      [] x.type = "str" -> [json |-> "string", text |-> x.v, point |-> FALSE]
      [] x.type = "NoneType" -> [json |-> "null", text |-> "null", point |-> FALSE]

\* json.load of a value, app.py:68: a number with a point is a float, one
\* without is an int.
LoadValue(j) ==
    CASE j.json = "number" /\ j.point -> FloatVal(j.text)
      [] j.json = "number" /\ ~j.point -> IntVal(j.text)
      [] j.json = "string" -> StrVal(j.text)
      [] j.json = "null" -> NullVal

DumpLabData(lab_data) ==
    [i \in 1..Len(lab_data) |-> [k \in DOMAIN lab_data[i] |-> DumpValue(lab_data[i][k])]]

LoadLabData(text) ==
    [i \in 1..Len(text) |-> [k \in DOMAIN text[i] |-> LoadValue(text[i][k])]]

\* json.dump(session_data, f), app.py:77-78: the document written holds, for each
\* record, the turns of the list its conversation_history refers to and the
\* lab results as JSON; strings are written and read back as they are.
JsonRecord(rec, h) ==
    LET r == SetKey(rec, "lab_data", DumpLabData(rec.lab_data))
    IN  IF HasHistory(rec)
        THEN SetKey(r, "conversation_history", h[rec.conversation_history])
        ELSE r

JsonDocument(sd, h) == [s \in DOMAIN sd |-> JsonRecord(sd[s], h)]

\* save_sessions, app.py:74-80.
save_sessions(sd, h) == [kind |-> "file", content |-> JsonDocument(sd, h)]

NoFile == [kind |-> "absent", content |-> <<>>]

\* json.load builds a new list object for every conversation_history.
ListFor(s) == CHOOSE i \in 1..Len(SessionSeq) : SessionSeq[i] = s

\* A record of the document read.
LoadRecord(rec, s) ==
    LET r == SetKey(rec, "lab_data", LoadLabData(rec.lab_data))
    IN  IF HasHistory(rec) THEN SetKey(r, "conversation_history", ListFor(s)) ELSE r

\* load_sessions at process start, app.py:57-72 and 83: the dict is empty when
\* there is no file; else it is the document read, each list a new object.
load_sessions(d) ==
    IF d.kind = "absent"
    THEN [sessions |-> <<>>, heap |-> [i \in ListIds |-> <<>>]]
    ELSE [sessions |-> [s \in DOMAIN d.content |-> LoadRecord(d.content[s], s)],
          heap |->
            [i \in ListIds |->
                IF \E s \in DOMAIN d.content : ListFor(s) = i /\ HasHistory(d.content[s])
                THEN d.content[SessionSeq[i]].conversation_history
                ELSE <<>>]]

\* The turns of session s as a reader of the store sees them.
Conversation(sd, h, s) == h[sd[s].conversation_history]

(***************************************************************************)
(* What the clients send.                                                  *)
(***************************************************************************)
TextDoc == [PyPDF2 |-> <<Yields(<<"a">>)>>, pdfplumber |-> <<Yields(<<"b">>)>>,
            ocr |-> <<Yields(<<"c">>)>>]
ScannedDoc == [PyPDF2 |-> <<Yields(<<>>)>>, pdfplumber |-> <<Yields(<<>>)>>,
               ocr |-> <<Yields(<<"c">>)>>]
BrokenDoc == [PyPDF2 |-> <<Raises>>, pdfplumber |-> <<Raises>>, ocr |-> <<Raises>>]

\* The libraries of app.py:23-38 as installed where the store runs.
LibrariesPresent == [PyPDF2 |-> TRUE, pdfplumber |-> TRUE, ocr |-> TRUE]

\* request.files: no 'file' part, or a file with its name.
NoUpload == [present |-> FALSE, filename |-> ""]
Named(f) == [present |-> TRUE, filename |-> f]

\* The upload requests sent: the file part, the document in it, and what the
\* service answers when asked for its lab data.
UploadRequests ==
    {[file |-> Named("a.pdf"), doc |-> TextDoc,
      reply |-> ServiceReturns(<<LBracket, "o1", RBracket>>)],
     [file |-> Named("B.PDF"), doc |-> TextDoc, reply |-> ServiceRaises],
     [file |-> NoUpload, doc |-> TextDoc, reply |-> ServiceRaises],
     [file |-> Named(""), doc |-> TextDoc, reply |-> ServiceRaises],
     [file |-> Named("notes.txt"), doc |-> TextDoc, reply |-> ServiceRaises],
     [file |-> Named("a.pdf"), doc |-> BrokenDoc, reply |-> ServiceRaises],
     [file |-> Named("a.pdf"), doc |-> ScannedDoc, reply |-> ServiceRaises]}

\* file.filename.lower().endswith('.pdf'), app.py:116.
IsPdfName(f) == f \in {"a.pdf", "B.PDF"}

\* The language a chat request names (the records start with "English").
Languages == {"Hindi"}

\* The message of a chat request, before .strip() (app.py:224).
Messages == {<<"h", "i">>, <<" ">>}

\* The models failing during one chat request.
ChatFailures == {{}, ModelSet}

\* Chat requests are numbered in arrival order; the numbers up to ReqBase are
\* those of the requests of earlier runs of the process.
ReqBase == HistoryCap \div 2

\* A handler: pc is the statement it is about to run, the rest its locals.
ThreadIdle == [pc |-> "idle", sid |-> "", req |-> 0, language |-> "", message |-> <<>>,
               conv |-> NoList, response |-> ""]

\* The last step: the handler that ran, the session and the chat request it
\* served, the status it answered with (0: it has not answered yet), the
\* error its answer names, and whether it called extract_lab_data_with_gemini.
OpError(op, sid, req, status, error) ==
    [op |-> op, sid |-> sid, req |-> req, status |-> status, error |-> error,
     extracted |-> FALSE]

Op(op, sid, req, status) == OpError(op, sid, req, status, "")

\* The step of a handler that got as far as app.py:140 (445).
Extracted(o) == [o EXCEPT !.extracted = TRUE]

\* The error of a model, as the handler of app.py:259-260 would report it.
ModelError == "model_error"

\* The errors of app.py:228 and 231.
Required == "Session ID and message are required"
SessionNotFound == "Session not found. Please upload a PDF first."

(***************************************************************************)
(* upload_pdf, app.py:105-172: the whole handler.                          *)
(***************************************************************************)
\* The record of app.py:144-151.
NewRecord(list, time, filename) ==
    [pdf_text |-> <<>>, conversation_history |-> list, language |-> "English",
     lab_data |-> <<>>, upload_time |-> time, filename |-> filename]

\* app.py:143-155: the store after a successful upload to session sid.
StoreUpload(sd, sid, list, time, filename, text, lab_data) ==
    LET rec0 == IF sid \in DOMAIN sd THEN sd[sid] ELSE NewRecord(list, time, filename)
        rec1 == SetKey(rec0, "pdf_text", text)
        rec2 == SetKey(rec1, "lab_data", lab_data)
        rec3 == SetKey(rec2, "filename", filename)
    IN  SetKey(sd, sid, rec3)

\* The time of datetime.now() at an upload: later uploads get later times.
Now == MaxUploads - budget.uploads + 1

\* A refusal that looks at the file part only.
UploadRefusedByName(file, text) ==
    ~file.present \/ file.filename = "" \/ ~IsPdfName(file.filename)

\* app.py:109-117 and 136-137 (413-422 and 441-442): the request is refused.
UploadRefused(file, text) ==
    ~file.present \/ file.filename = "" \/ ~IsPdfName(file.filename) \/ IsBlank(text)

upload_pdf(sid, file, doc, reply) ==
    /\ budget.uploads > 0
    /\ budget' = [budget EXCEPT !.uploads = @ - 1]
    /\ LET text == extract_text_from_pdf(doc, LibrariesPresent)
           labr == extract_lab_data_with_gemini(api_key, reply)
       IN  IF UploadRefused(file, text)
           THEN /\ last' = Op("upload_pdf", "", 0, 400)
                /\ UNCHANGED <<session_data, heap, disk, issued, appended, completed>>
           ELSE IF labr.outcome = "raised"
           THEN /\ last' = Extracted(Op("upload_pdf", "", 0, 500))
                /\ UNCHANGED <<session_data, heap, disk, issued, appended, completed>>
           ELSE LET list == FreshList(session_data, threads)
                    sd == StoreUpload(session_data, sid, list, Now, file.filename,
                                      text, labr.data)
                    h == IF sid \in DOMAIN session_data THEN heap
                         ELSE [heap EXCEPT ![list] = <<>>]
                IN  /\ session_data' = sd
                    /\ heap' = h
                    /\ disk' = save_sessions(sd, h)
                    /\ issued' = issued \cup {sid}
                    /\ appended' = IF sid \in DOMAIN session_data THEN appended
                                   ELSE [appended EXCEPT ![sid] = <<>>]
                    /\ completed' = IF sid \in DOMAIN session_data THEN completed
                                    ELSE [completed EXCEPT ![sid] = {}]
                    /\ last' = Extracted(Op("upload_pdf", sid, 0, 200))
    /\ UNCHANGED <<ex, lab, call, api_key, threads>>

(***************************************************************************)
(* upload_medical_report, app.py:410-463: the whole handler.  The session  *)
(* id is a new uuid4; the record has four keys; nothing is saved.          *)
(***************************************************************************)
upload_medical_report(sid, file, doc, reply) ==
    /\ budget.uploads > 0
    /\ budget' = [budget EXCEPT !.uploads = @ - 1]
    /\ sid \notin issued
    /\ LET text == extract_text_from_pdf(doc, LibrariesPresent)
           labr == extract_lab_data_with_gemini(api_key, reply)
       IN  IF UploadRefused(file, text)
           THEN /\ last' = Op("upload", "", 0, 400)
                /\ UNCHANGED <<session_data, issued, appended, completed>>
           ELSE IF labr.outcome = "raised"
           THEN /\ last' = Extracted(Op("upload", "", 0, 500))
                /\ UNCHANGED <<session_data, issued, appended, completed>>
           ELSE /\ session_data' =
                        SetKey(session_data, sid,
                               [pdf_text |-> text, lab_data |-> labr.data,
                                upload_time |-> Now, filename |-> file.filename])
                /\ issued' = issued \cup {sid}
                /\ appended' = [appended EXCEPT ![sid] = <<>>]
                /\ completed' = [completed EXCEPT ![sid] = {}]
                /\ last' = Extracted(Op("upload", sid, 0, 200))
    /\ UNCHANGED <<ex, lab, call, api_key, heap, disk, threads>>

(***************************************************************************)
(* clear_session, app.py:395-408: the whole handler.  The body is the JSON *)
(* object sent, or none (get_json then raises or returns None).            *)
(***************************************************************************)
NoBody == [json |-> FALSE, session_id |-> ""]
ClearBodies == {NoBody} \cup [json : {TRUE}, session_id : SessionIds \cup {""}]

clear_session(body) ==
    /\ budget.clears > 0
    /\ budget' = [budget EXCEPT !.clears = @ - 1]
    /\ IF ~body.json
       THEN /\ last' = Op("clear_session", "", 0, 500)
            /\ UNCHANGED <<session_data, heap, appended, completed>>
       ELSE IF body.session_id # "" /\ body.session_id \in DOMAIN session_data
       THEN LET sd == DelKey(session_data, body.session_id)
            IN  /\ session_data' = sd
                /\ heap' = Collect(heap, sd, threads)
                /\ appended' = [appended EXCEPT ![body.session_id] = <<>>]
                /\ completed' = [completed EXCEPT ![body.session_id] = {}]
                /\ last' = Op("clear_session", body.session_id, 0, 200)
       ELSE /\ last' = Op("clear_session", body.session_id, 0, 200)
            /\ UNCHANGED <<session_data, heap, appended, completed>>
    /\ UNCHANGED <<ex, lab, call, api_key, disk, threads, issued>>

(***************************************************************************)
(* The process stops, with its handlers, and starts again: app.py:57, 83.  *)
(***************************************************************************)
Restart ==
    /\ budget.restarts > 0
    /\ LET l == load_sessions(disk)
       IN  /\ session_data' = l.sessions
           /\ heap' = l.heap
           /\ appended' = [s \in SessionIds |->
                             IF s \in DOMAIN l.sessions /\ HasHistory(l.sessions[s])
                             THEN l.heap[l.sessions[s].conversation_history]
                             ELSE <<>>]
    /\ threads' = [t \in Threads |-> ThreadIdle]
    /\ completed' = [s \in SessionIds |-> {}]
    /\ budget' = [budget EXCEPT !.restarts = @ - 1]
    /\ last' = Op("restart", "", 0, 0)
    /\ UNCHANGED <<ex, lab, call, api_key, disk, issued>>

(***************************************************************************)
(* chat, app.py:215-260, statement by statement: the server runs a handler *)
(* per request, and two handlers interleave between any two statements.    *)
(***************************************************************************)
\* What a step of a chat handler leaves alone besides the variables it names.
ChatFrame == UNCHANGED <<ex, lab, call, api_key, disk, issued>>

\* The handler that takes the next request: handlers are interchangeable.
FirstIdle == ThreadOrder[Min({i \in 1..Len(ThreadOrder) : threads[ThreadOrder[i]].pc = "idle"})]

\* The handler raises: the except clause of app.py:259-260 answers 500.
Raise500(t) ==
    LET th == [threads EXCEPT ![t] = ThreadIdle]
    IN  /\ threads' = th
        /\ heap' = Collect(heap, session_data, th)
        /\ last' = Op("chat", threads[t].sid, threads[t].req, 500)
        /\ UNCHANGED <<session_data, appended, completed>>

\* A step of handler t that neither raises nor answers.
Continue(t) == last' = Op("chat", "", 0, 0)

\* A test for the session that finds every session.
SessionMissingNever(sid, sd) == FALSE

\* session_id not in session_data, app.py:230.
SessionMissing(sid, sd) == sid \notin DOMAIN sd

\* app.py:219-231: the request is read and checked.
ChatStart(t, sid, message, language) ==
    /\ Cardinality({u \in Threads : threads[u].pc # "idle"}) < budget.handlers
    /\ t = FirstIdle
    /\ budget.chats > 0
    /\ budget' = [budget EXCEPT !.chats = @ - 1]
    /\ LET req == ReqBase + MaxChats - budget.chats + 1
       IN  IF strip(message) = <<>>
           THEN /\ last' = OpError("chat", sid, req, 400, Required)
                /\ UNCHANGED threads
           ELSE IF SessionMissing(sid, session_data)
           THEN /\ last' = OpError("chat", sid, req, 400, SessionNotFound)
                /\ UNCHANGED threads
           ELSE /\ threads' = [threads EXCEPT ![t] =
                                [ThreadIdle EXCEPT !.pc = "set_language", !.sid = sid,
                                                   !.req = req, !.language = language,
                                                   !.message = strip(message)]]
                /\ last' = Op("chat", "", 0, 0)
    /\ UNCHANGED <<session_data, heap, appended, completed>>
    /\ ChatFrame

\* app.py:234
SetLanguage(t) ==
    /\ threads[t].pc = "set_language"
    /\ IF threads[t].sid \notin DOMAIN session_data
       THEN Raise500(t)
       ELSE /\ session_data' =
                    [session_data EXCEPT ![threads[t].sid] =
                        SetKey(@, "language", threads[t].language)]
            /\ threads' = [threads EXCEPT ![t].pc = "read_text"]
            /\ Continue(t)
            /\ UNCHANGED <<heap, appended, completed>>
    /\ UNCHANGED budget
    /\ ChatFrame

\* app.py:237
ReadText(t) ==
    /\ threads[t].pc = "read_text"
    /\ IF threads[t].sid \notin DOMAIN session_data
       THEN Raise500(t)
       ELSE /\ threads' = [threads EXCEPT ![t].pc = "read_history"]
            /\ Continue(t)
            /\ UNCHANGED <<session_data, heap, appended, completed>>
    /\ UNCHANGED budget
    /\ ChatFrame

\* app.py:238: the local variable refers to the list the record refers to.
ReadHistory(t) ==
    /\ threads[t].pc = "read_history"
    /\ IF \/ threads[t].sid \notin DOMAIN session_data
          \/ ~HasHistory(session_data[threads[t].sid])
       THEN Raise500(t)
       ELSE /\ threads' = [threads EXCEPT
                            ![t].pc = "generate",
                            ![t].conv = session_data[threads[t].sid].conversation_history]
            /\ Continue(t)
            /\ UNCHANGED <<session_data, heap, appended, completed>>
    /\ UNCHANGED budget
    /\ ChatFrame

\* app.py:241
Generate(t) ==
    /\ threads[t].pc = "generate"
    /\ \E failing \in ChatFailures :
          LET r == generate_gemini_response(api_key, failing)
          IN  IF r.outcome = "raised"
              THEN LET th == [threads EXCEPT ![t] = ThreadIdle]
                   IN  /\ threads' = th
                       /\ heap' = Collect(heap, session_data, th)
                       /\ last' = OpError("chat", threads[t].sid, threads[t].req, 500,
                                          ModelError)
              ELSE /\ threads' = [threads EXCEPT ![t].pc = "append_user",
                                                 ![t].response = r.kind]
                   /\ Continue(t)
                   /\ UNCHANGED heap
    /\ UNCHANGED <<session_data, budget, appended, completed>>
    /\ ChatFrame

\* app.py:244: list.append changes the list object in place.
AppendUser(t) ==
    /\ threads[t].pc = "append_user"
    /\ LET turn == UserTurn(threads[t].req, threads[t].message)
       IN  /\ heap' = [heap EXCEPT ![threads[t].conv] = Append(@, turn)]
           /\ appended' = [appended EXCEPT ![threads[t].sid] = Append(@, turn)]
    /\ threads' = [threads EXCEPT ![t].pc = "append_assistant"]
    /\ Continue(t)
    /\ UNCHANGED <<session_data, budget, completed>>
    /\ ChatFrame

\* app.py:245
AppendAssistant(t) ==
    /\ threads[t].pc = "append_assistant"
    /\ LET turn == AssistantTurn(threads[t].req, threads[t].response)
       IN  /\ heap' = [heap EXCEPT ![threads[t].conv] = Append(@, turn)]
           /\ appended' = [appended EXCEPT ![threads[t].sid] = Append(@, turn)]
    /\ threads' = [threads EXCEPT ![t].pc = "check_len"]
    /\ Continue(t)
    /\ UNCHANGED <<session_data, budget, completed>>
    /\ ChatFrame

\* app.py:248
CheckLen(t) ==
    /\ threads[t].pc = "check_len"
    /\ threads' = [threads EXCEPT ![t].pc =
                    IF Len(heap[threads[t].conv]) > HistoryCap THEN "slice"
                    ELSE "write_back"]
    /\ Continue(t)
    /\ UNCHANGED <<session_data, heap, budget, appended, completed>>
    /\ ChatFrame

\* app.py:249: the slice is a new list object, bound to the local variable.
Slice(t) ==
    /\ threads[t].pc = "slice"
    /\ LET new == FreshList(session_data, threads)
           th == [threads EXCEPT ![t].pc = "write_back", ![t].conv = new]
           h == [heap EXCEPT ![new] = LastTurns(heap[threads[t].conv], HistoryCap)]
       IN  /\ threads' = th
           /\ heap' = Collect(h, session_data, th)
    /\ Continue(t)
    /\ UNCHANGED <<session_data, budget, appended, completed>>
    /\ ChatFrame

\* A write-back that makes a record when the session has none.
WriteBackCreates(t) ==
    /\ threads[t].pc = "write_back"
    /\ LET rec == IF threads[t].sid \in DOMAIN session_data
                  THEN session_data[threads[t].sid]
                  ELSE NewRecord(threads[t].conv, 0, "")
           sd == SetKey(session_data, threads[t].sid,
                        SetKey(rec, "conversation_history", threads[t].conv))
           th == [threads EXCEPT ![t] = ThreadIdle]
       IN  /\ session_data' = sd
           /\ threads' = th
           /\ heap' = Collect(heap, sd, th)
           /\ completed' = [completed EXCEPT ![threads[t].sid] = @ \cup {threads[t].req}]
           /\ last' = Op("chat", threads[t].sid, threads[t].req, 200)
           /\ UNCHANGED appended
    /\ UNCHANGED budget
    /\ ChatFrame

\* app.py:251-257: the record is made to refer to the local list; 200.
WriteBack(t) ==
    /\ threads[t].pc = "write_back"
    /\ IF threads[t].sid \notin DOMAIN session_data
       THEN Raise500(t)
       ELSE LET sd == [session_data EXCEPT ![threads[t].sid] =
                          SetKey(@, "conversation_history", threads[t].conv)]
                th == [threads EXCEPT ![t] = ThreadIdle]
            IN  /\ session_data' = sd
                /\ threads' = th
                /\ heap' = Collect(heap, sd, th)
                /\ completed' = [completed EXCEPT ![threads[t].sid] =
                                    @ \cup {threads[t].req}]
                /\ last' = Op("chat", threads[t].sid, threads[t].req, 200)
                /\ UNCHANGED appended
    /\ UNCHANGED budget
    /\ ChatFrame

(***************************************************************************)
(* The specifications.                                                     *)
(***************************************************************************)
\* The session file an earlier run of the process left: session s1 after an
\* upload, pairs chat requests and a second upload to s1 (which saves).
PriorTurns(pairs) ==
    [i \in 1..(2 * pairs) |->
        IF i % 2 = 1 THEN UserTurn((i + 1) \div 2, <<"h", "i">>)
        ELSE AssistantTurn(i \div 2, "reply")]

PriorFile(pairs) ==
    [kind |-> "file",
     content |-> [s \in {"s1"} |->
                    [pdf_text |-> <<"a", "\n">>, conversation_history |-> PriorTurns(pairs),
                     language |-> "English", lab_data |-> <<>>, upload_time |-> 0,
                     filename |-> "a.pdf"]]]

InitialFiles == {NoFile, PriorFile(ReqBase - 1), PriorFile(ReqBase)}

\* What the clients send during a run: two chat requests that may overlap and
\* a clear, or chat requests one at a time with an upload, a clear and a restart
\* of the process at any moment.
Workloads ==
    {[chats |-> MaxChats, uploads |-> 0, clears |-> MaxClears, restarts |-> 0,
      handlers |-> MaxHandlers],
     [chats |-> MaxChats, uploads |-> MaxUploads, clears |-> MaxClears,
      restarts |-> MaxRestarts, handlers |-> 1]}

StoreIdle ==
    /\ session_data = <<>>
    /\ heap = [i \in ListIds |-> <<>>]
    /\ disk = NoFile
    /\ threads = [t \in Threads |-> ThreadIdle]
    /\ issued = {}
    /\ budget = [chats |-> 0, uploads |-> 0, clears |-> 0, restarts |-> 0, handlers |-> 0]
    /\ appended = [s \in SessionIds |-> <<>>]
    /\ completed = [s \in SessionIds |-> {}]
    /\ last = Op("start", "", 0, 0)

\* The process after its start (app.py:83) on the file it finds.
Init ==
    /\ ex = ExIdle
    /\ lab = LabIdle
    /\ call = NoCall
    /\ api_key \in BOOLEAN
    /\ disk \in InitialFiles
    /\ session_data = load_sessions(disk).sessions
    /\ heap = load_sessions(disk).heap
    /\ threads = [t \in Threads |-> ThreadIdle]
    /\ issued = DOMAIN load_sessions(disk).sessions
    /\ budget \in Workloads
    /\ appended = [s \in SessionIds |->
                    IF s \in DOMAIN disk.content
                    THEN disk.content[s].conversation_history ELSE <<>>]
    /\ completed = [s \in SessionIds |-> {}]
    /\ last = Op("start", "", 0, 0)

Next ==
    \/ \E sid \in SessionIds, r \in UploadRequests :
          upload_pdf(sid, r.file, r.doc, r.reply)
    \/ \E sid \in SessionIds, r \in UploadRequests :
          upload_medical_report(sid, r.file, r.doc, r.reply)
    \/ \E body \in ClearBodies : clear_session(body)
    \/ Restart
    \/ \E t \in Threads, sid \in SessionIds, message \in Messages, language \in Languages :
          ChatStart(t, sid, message, language)
    \/ \E t \in Threads : SetLanguage(t)
    \/ \E t \in Threads : ReadText(t)
    \/ \E t \in Threads : ReadHistory(t)
    \/ \E t \in Threads : Generate(t)
    \/ \E t \in Threads : AppendUser(t)
    \/ \E t \in Threads : AppendAssistant(t)
    \/ \E t \in Threads : CheckLen(t)
    \/ \E t \in Threads : Slice(t)
    \/ \E t \in Threads : WriteBack(t)

Spec == Init /\ [][Next]_vars

\* One call of extract_text_from_pdf on any document, with any libraries present.
InitExtract ==
    /\ ExtractInit
    /\ lab = LabIdle
    /\ call = NoCall
    /\ api_key = FALSE
    /\ StoreIdle

NextExtract ==
    \/ TryPyPDF2
    \/ TryPdfplumber
    \/ TryOcr
    \/ ReturnText

SpecExtract == InitExtract /\ [][NextExtract]_vars

\* One call of extract_lab_data_with_gemini on any reply of the service.
InitLab ==
    /\ ex = ExIdle
    /\ call = NoCall
    /\ api_key \in BOOLEAN
    /\ \/ lab = LabStart(<<>>, ServiceRaises)
       \/ \E shape \in ResponseShapes :
             lab = LabStart(shape, ServiceReturns(RenderResponse(shape)))
    /\ StoreIdle

NextLab ==
    \/ LabCall
    \/ LabClean
    \/ LabSlice
    \/ LabParse
    \/ LabValidate

SpecLab == InitLab /\ [][NextLab]_vars

(***************************************************************************)
(* calculate_lab_summary, app.py:620-638.                                  *)
(***************************************************************************)
\* The status strings the records carry.
StatusStrings == {"NORMAL", "normal", "Normal", "SLIGHTLY_ABNORMAL", "Slightly_Abnormal",
                  "CRITICAL", "critical", "HIGH", "high", ""}

\* str.upper() on the status strings, without the case folding.
upperNone(s) == s

\* str.upper() on the status strings, app.py:630.
upper(s) ==
    CASE s \in {"normal", "Normal"} -> "NORMAL"
      [] s = "Slightly_Abnormal" -> "SLIGHTLY_ABNORMAL"
      [] s = "critical" -> "CRITICAL"
      [] s = "high" -> "HIGH"
      [] OTHER -> s

\* The records given to the function: a lab result with any status string, with
\* a status that is no string, or without the key.
WithStatus(x) == [ObjectOf("o1") EXCEPT !.status = x]

SummaryRecords ==
    {WithStatus(StrVal(st)) : st \in StatusStrings}
    \cup {WithStatus(NullVal), WithStatus(IntVal("7")), ObjectOf("oMissing"),
          DelKey(ObjectOf("o1"), "status")}

SummaryInputs == UNION {[1..n -> SummaryRecords] : n \in 0..MaxElems}

\* test.get('status', ''), app.py:630.
StatusOf(test) == IF "status" \in DOMAIN test THEN test.status ELSE StrVal("")

\* app.py:622-627
NewSummary(lab_data) ==
    [total_tests |-> Len(lab_data), normal |-> 0, slightly_abnormal |-> 0, critical |-> 0]

\* app.py:630-636 for one record whose status is a string.
Counted(summary, status) ==
    CASE status = "NORMAL" -> [summary EXCEPT !.normal = @ + 1]
      [] status = "SLIGHTLY_ABNORMAL" -> [summary EXCEPT !.slightly_abnormal = @ + 1]
      [] status = "CRITICAL" -> [summary EXCEPT !.critical = @ + 1]
      [] OTHER -> summary

\* The loop of app.py:629-636 from record i on: [exc, val].  A status that is
\* no string has no upper(): AttributeError.
RECURSIVE SummaryFrom(_, _, _)
SummaryFrom(lab_data, i, summary) ==
    IF i > Len(lab_data) THEN [exc |-> "none", val |-> summary]
    ELSE LET x == StatusOf(lab_data[i])
         IN  IF x.type # "str" THEN [exc |-> "AttributeError", val |-> summary]
             ELSE SummaryFrom(lab_data, i + 1, Counted(summary, upper(x.v)))

\* The whole function.
calculate_lab_summary(lab_data) == SummaryFrom(lab_data, 1, NewSummary(lab_data))

\* The call in progress: input is the list as it was passed, lab_data the
\* list object as it is now, i the record the loop is at.
SummaryStart(lab_data) ==
    [fn |-> "calculate_lab_summary", pc |-> "loop", input |-> lab_data,
     lab_data |-> lab_data, i |-> 1, summary |-> NewSummary(lab_data), outcome |-> "none"]

\* app.py:629-636, one record.
SummaryCount ==
    /\ CallFrame
    /\ call.fn = "calculate_lab_summary"
    /\ call.pc = "loop"
    /\ call.i <= Len(call.lab_data)
    /\ LET x == StatusOf(call.lab_data[call.i])
       IN  IF x.type # "str"
           THEN call' = [call EXCEPT !.pc = "done", !.outcome = "AttributeError"]
           ELSE call' = [call EXCEPT !.i = @ + 1,
                                     !.summary = Counted(@, upper(x.v))]

\* app.py:638
SummaryReturn ==
    /\ CallFrame
    /\ call.fn = "calculate_lab_summary"
    /\ call.pc = "loop"
    /\ call.i > Len(call.lab_data)
    /\ call' = [call EXCEPT !.pc = "done", !.outcome = "returned"]

InitSummary ==
    /\ ex = ExIdle
    /\ lab = LabIdle
    /\ api_key = FALSE
    /\ StoreIdle
    /\ \E lab_data \in SummaryInputs : call = SummaryStart(lab_data)

NextSummary ==
    \/ SummaryCount
    \/ SummaryReturn

SpecSummary == InitSummary /\ [][NextSummary]_vars

\* One call of generate_gemini_response, with any set of models failing.
InitGenerate ==
    /\ ex = ExIdle
    /\ lab = LabIdle
    /\ api_key = FALSE
    /\ StoreIdle
    /\ \E key \in BOOLEAN, failing \in SUBSET ModelSet,
          language \in GenLanguages, message \in GenMessages :
            call = GenStart(key, failing, language, message)

NextGenerate ==
    \/ GenBuildPrompt
    \/ GenTryModel
    \/ GenApologize

SpecGenerate == InitGenerate /\ [][NextGenerate]_vars

(***************************************************************************)
(* export_results, app.py:498-512.                                         *)
(***************************************************************************)
\* The format segments of the request path.
Formats == {"csv", "CSV", "Csv", "pdf", "PDF", "xml", "XML", "json", "csvx"}

\* str.lower() on the formats, app.py:507 and 509.
lower(format) ==
    CASE format \in {"CSV", "Csv"} -> "csv"
      [] format = "PDF" -> "pdf"
      [] format = "XML" -> "xml"
      [] OTHER -> format

\* A dispatch that takes every format that is not csv for pdf.
FormatterForElsePdf(format) ==
    IF lower(format) = "csv" THEN "export_results_csv" ELSE "export_results_pdf"

\* app.py:507-512: the formatter the format selects, if any.
FormatterFor(format) ==
    CASE lower(format) = "csv" -> "export_results_csv"
      [] lower(format) = "pdf" -> "export_results_pdf"
      [] OTHER -> "none"

\* The errors of app.py:502 and 512.
ExportNotFound == "Session not found"
InvalidFormat == "Invalid format. Use csv or pdf"

\* The stores the request meets: any of two sessions present, s1 made by
\* /upload_pdf and s2 by /upload.
ExportRecord(s) ==
    IF s = "s1"
    THEN [pdf_text |-> <<"a", "\n">>, conversation_history |-> ListFor("s1"),
          language |-> "English",
          lab_data |-> <<WithFloatValue(ObjectOf("o1"), FloatVal("110"))>>,
          upload_time |-> 1, filename |-> "a.pdf"]
    ELSE [pdf_text |-> <<"a", "\n">>, lab_data |-> <<>>, upload_time |-> 2,
          filename |-> "B.PDF"]

ExportStores == {[s \in S |-> ExportRecord(s)] : S \in SUBSET SessionIds}

ExportStart(session_id, format) ==
    [fn |-> "export_results", pc |-> "lookup", session_id |-> session_id,
     format |-> format, lab_data |-> <<>>, examined |-> FALSE, invoked |-> <<>>,
     status |-> 0, error |-> ""]

\* app.py:501-505
ExportLookup ==
    /\ CallFrame
    /\ call.fn = "export_results"
    /\ call.pc = "lookup"
    /\ IF call.session_id \notin DOMAIN session_data
       THEN call' = [call EXCEPT !.pc = "done", !.status = 404, !.error = ExportNotFound]
       ELSE call' = [call EXCEPT !.pc = "dispatch",
                                 !.lab_data = session_data[call.session_id].lab_data]

\* app.py:507-512; export_results_pdf calls calculate_lab_summary (app.py:683)
\* and has no handler for what it raises.
ExportDispatch ==
    /\ CallFrame
    /\ call.fn = "export_results"
    /\ call.pc = "dispatch"
    /\ LET f == FormatterFor(call.format)
           c == [call EXCEPT !.pc = "done", !.examined = TRUE]
       IN  IF f = "none"
           THEN call' = [c EXCEPT !.status = 400, !.error = InvalidFormat]
           ELSE IF f = "export_results_pdf"
                   /\ calculate_lab_summary(call.lab_data).exc # "none"
           THEN call' = [c EXCEPT !.invoked = <<f>>, !.status = 500,
                                  !.error = calculate_lab_summary(call.lab_data).exc]
           ELSE call' = [c EXCEPT !.invoked = <<f>>, !.status = 200]

InitExport ==
    /\ ex = ExIdle
    /\ lab = LabIdle
    /\ api_key = FALSE
    /\ session_data \in ExportStores
    /\ heap = [i \in ListIds |-> <<>>]
    /\ disk = NoFile
    /\ threads = [t \in Threads |-> ThreadIdle]
    /\ issued = DOMAIN session_data
    /\ budget = [chats |-> 0, uploads |-> 0, clears |-> 0, restarts |-> 0, handlers |-> 0]
    /\ appended = [s \in SessionIds |-> <<>>]
    /\ completed = [s \in SessionIds |-> {}]
    /\ last = Op("start", "", 0, 0)
    /\ \E session_id \in SessionIds, format \in Formats :
          call = ExportStart(session_id, format)

NextExport ==
    \/ ExportLookup
    \/ ExportDispatch

SpecExport == InitExport /\ [][NextExport]_vars

(***************************************************************************)
(* load_sessions, app.py:62-72, statement by statement, on any file.  The  *)
(* global session_data is modelled by call.type, the Python type of the    *)
(* object it is bound to, and session_data, the items of that object.      *)
(***************************************************************************)
\* Files holding a mapping: what save_sessions wrote in an earlier run.
MappingFiles ==
    {save_sessions(sd, [i \in ListIds |-> <<>>]) : sd \in ExportStores}
        \cup {PriorFile(pairs) : pairs \in 1..ReqBase}

\* Other files: one that cannot be opened, ones that are not JSON (empty, cut
\* short), and ones holding a JSON value that is not an object.
OtherFile(kind, text) == [kind |-> kind, content |-> <<>>, text |-> text]

OtherFiles ==
    {OtherFile("unreadable", ""), OtherFile("invalid", ""), OtherFile("invalid", "{"),
     OtherFile("json", "null"), OtherFile("json", "7"), OtherFile("json", "true"),
     OtherFile("json", "[]"), OtherFile("json", "[7]"), OtherFile("json", "\"ab\"")}

\* json.load of a file holding a value that is not an object: the Python
\* type of the value and its items.
JsonLoad(text) ==
    CASE text = "null" -> [type |-> "NoneType", items |-> <<>>]
      [] text = "7" -> [type |-> "int", items |-> <<>>]
      [] text = "true" -> [type |-> "bool", items |-> <<>>]
      [] text = "[]" -> [type |-> "list", items |-> <<>>]
      [] text = "[7]" -> [type |-> "list", items |-> <<IntVal("7")>>]
      [] text = "\"ab\"" -> [type |-> "str", items |-> <<"a", "b">>]

\* The types len() accepts, app.py:69.
Sized == {"dict", "list", "str"}

\* app.py:57 and 83: the call at process start; session_data is {}.
LoadStart == [fn |-> "load_sessions", pc |-> "exists", type |-> "dict"]

\* app.py:66
LoadExists ==
    /\ call.fn = "load_sessions"
    /\ call.pc = "exists"
    /\ call' = [call EXCEPT !.pc = IF disk.kind = "absent" THEN "done" ELSE "open"]
    /\ CallFrame

\* app.py:67
LoadOpen ==
    /\ call.fn = "load_sessions"
    /\ call.pc = "open"
    /\ call' = [call EXCEPT !.pc = IF disk.kind = "unreadable" THEN "except" ELSE "load"]
    /\ CallFrame

\* app.py:68: json.load raises, or session_data is bound to the value read.
LoadJson ==
    /\ call.fn = "load_sessions"
    /\ call.pc = "load"
    /\ CASE disk.kind = "invalid" ->
              /\ call' = [call EXCEPT !.pc = "except"]
              /\ UNCHANGED <<session_data, heap>>
         [] disk.kind = "file" ->
              /\ call' = [call EXCEPT !.pc = "len", !.type = "dict"]
              /\ session_data' = load_sessions(disk).sessions
              /\ heap' = load_sessions(disk).heap
         [] disk.kind = "json" ->
              /\ call' = [call EXCEPT !.pc = "len", !.type = JsonLoad(disk.text).type]
              /\ session_data' = JsonLoad(disk.text).items
              /\ UNCHANGED heap
    /\ UNCHANGED <<ex, lab, disk, threads, api_key, issued, budget, appended,
                   completed, last>>

\* app.py:69: the f-string calls len(session_data).
LoadLen ==
    /\ call.fn = "load_sessions"
    /\ call.pc = "len"
    /\ call' = [call EXCEPT !.pc = IF call.type \in Sized THEN "done" ELSE "except"]
    /\ CallFrame

\* app.py:70-72
LoadExcept ==
    /\ call.fn = "load_sessions"
    /\ call.pc = "except"
    /\ call' = [call EXCEPT !.pc = "done", !.type = "dict"]
    /\ session_data' = <<>>
    /\ UNCHANGED <<ex, lab, heap, disk, threads, api_key, issued, budget, appended,
                   completed, last>>

InitLoad ==
    /\ ex = ExIdle
    /\ lab = LabIdle
    /\ api_key \in BOOLEAN
    /\ session_data = <<>>
    /\ heap = [i \in ListIds |-> <<>>]
    /\ \/ disk = NoFile
       \/ disk \in MappingFiles
       \/ disk \in OtherFiles
    /\ threads = [t \in Threads |-> ThreadIdle]
    /\ issued = {}
    /\ budget = [chats |-> 0, uploads |-> 0, clears |-> 0, restarts |-> 0, handlers |-> 0]
    /\ appended = [s \in SessionIds |-> <<>>]
    /\ completed = [s \in SessionIds |-> {}]
    /\ last = Op("start", "", 0, 0)
    /\ call = LoadStart

NextLoad ==
    \/ LoadExists
    \/ LoadOpen
    \/ LoadJson
    \/ LoadLen
    \/ LoadExcept

SpecLoad == InitLoad /\ [][NextLoad]_vars

(***************************************************************************)
(* The session store when the requests do not overlap: one handler at a    *)
(* time, and an upload or a clear only when no chat request is in flight.  *)
(* The process may stop and start again at any moment.                     *)
(***************************************************************************)
NoChatInFlight == \A t \in Threads : threads[t].pc = "idle"

SequentialWorkload ==
    [chats |-> MaxChats, uploads |-> MaxUploads, clears |-> MaxClears,
     restarts |-> MaxRestarts, handlers |-> 1]

InitSequential ==
    /\ Init
    /\ budget = SequentialWorkload

UploadPdfAlone ==
    /\ NoChatInFlight
    /\ \E sid \in SessionIds, r \in UploadRequests :
          upload_pdf(sid, r.file, r.doc, r.reply)

UploadAlone ==
    /\ NoChatInFlight
    /\ \E sid \in SessionIds, r \in UploadRequests :
          upload_medical_report(sid, r.file, r.doc, r.reply)

ClearAlone ==
    /\ NoChatInFlight
    /\ \E body \in ClearBodies : clear_session(body)

NextSequential ==
    \/ UploadPdfAlone
    \/ UploadAlone
    \/ ClearAlone
    \/ Restart
    \/ \E t \in Threads, sid \in SessionIds, message \in Messages, language \in Languages :
          ChatStart(t, sid, message, language)
    \/ \E t \in Threads : SetLanguage(t)
    \/ \E t \in Threads : ReadText(t)
    \/ \E t \in Threads : ReadHistory(t)
    \/ \E t \in Threads : Generate(t)
    \/ \E t \in Threads : AppendUser(t)
    \/ \E t \in Threads : AppendAssistant(t)
    \/ \E t \in Threads : CheckLen(t)
    \/ \E t \in Threads : Slice(t)
    \/ \E t \in Threads : WriteBack(t)

SpecSequential == InitSequential /\ [][NextSequential]_vars

(***************************************************************************)
(* The session store under concurrent chat requests.                       *)
(***************************************************************************)
Quiescent == \A t \in Threads : threads[t].pc = "idle"

SessionsWithHistory == {s \in DOMAIN session_data : HasHistory(session_data[s])}

SameTurn(a, b) == a.role = b.role /\ a.req = b.req /\ a.content = b.content

SameTurns(c, d) == Len(c) = Len(d) /\ \A i \in 1..Len(c) : SameTurn(c[i], d[i])

\* The positions of turns that are among its n most recent.
RecentPositions(turns, n) == {i \in 1..Len(turns) : i > Len(turns) - n}

HoldsTurn(c, turn) == \E j \in 1..Len(c) : SameTurn(c[j], turn)

\* C1: once the chat requests for a session have returned, the conversation
\* holds both turns of every request that returned success, unless the turn is
\* no longer among the HistoryCap most recent turns appended to the session.
C1_NoPairLost ==
    Quiescent =>
        \A s \in SessionsWithHistory :
            \A i \in RecentPositions(appended[s], HistoryCap) :
                appended[s][i].req \in completed[s] =>
                    HoldsTurn(Conversation(session_data, heap, s), appended[s][i])

\* C2: in every conversation a user turn that is not the last turn is followed
\* at once by the assistant turn of the same request, and every assistant turn
\* that is not the first follows the user turn of its request: the turns of
\* two requests are never interleaved.
C2_PairsNotInterleaved ==
    \A s \in SessionsWithHistory :
        LET c == Conversation(session_data, heap, s)
        IN  \A i \in 1..Len(c) :
                /\ (c[i].role = "user" /\ i < Len(c)) =>
                        (c[i + 1].role = "assistant" /\ c[i + 1].req = c[i].req)
                /\ (c[i].role = "assistant" /\ i > 1) =>
                        (c[i - 1].role = "user" /\ c[i - 1].req = c[i].req)

\* C3: a restart of the process leaves the mapping as it was in memory just
\* before: the same session ids, and for each the same record.
C3_RestartKeepsSessions ==
    [][budget'.restarts < budget.restarts =>
            JsonDocument(session_data', heap') = JsonDocument(session_data, heap)]_vars

NoClearServed == budget.clears = MaxClears

\* C4: when a chat request returns success, and no session was cleared
\* meanwhile, the conversation of its session holds at most HistoryCap turns,
\* and they are the most recent turns appended to the session, in the order
\* appended.
C4_CapKeepsMostRecent ==
    (last.op = "chat" /\ last.status = 200 /\ NoClearServed) =>
        LET c == Conversation(session_data, heap, last.sid)
        IN  /\ Len(c) <= HistoryCap
            /\ SameTurns(c, LastTurns(appended[last.sid], HistoryCap))

(***************************************************************************)
(* extract_text_from_pdf.                                                  *)
(***************************************************************************)
Strategies == <<"PyPDF2", "pdfplumber", "ocr">>

\* What strategy k makes of the document on its own, from an empty text.
OwnRun(k, doc) ==
    CASE k = 1 -> PyPDF2Pages(<<>>, doc.PyPDF2, 1)
      [] k = 2 -> PdfplumberPages(<<>>, doc.pdfplumber, 1)
      [] k = 3 -> OcrPages(<<>>, doc.ocr, 1)

\* Strategy k is present, reads the whole document and yields a text that is
\* not empty after trimming.
Yielding(k, doc, avail) ==
    /\ avail[Strategies[k]]
    /\ ~OwnRun(k, doc).raised
    /\ ~IsBlank(OwnRun(k, doc).text)

FirstYielding(k, doc, avail) ==
    /\ Yielding(k, doc, avail)
    /\ \A j \in 1..(k - 1) : ~Yielding(j, doc, avail)

\* C5: the text returned is the output of the first strategy, in the order
\* PyPDF2, pdfplumber, OCR, that yields a non-empty trimmed text, and of that
\* strategy alone.
C5_OneStrategyOutput ==
    ex.pc = "done" =>
        \A k \in 1..Len(Strategies) :
            FirstYielding(k, ex.doc, ex.avail) => ex.result = OwnRun(k, ex.doc).text

\* C6: when no strategy yields (each is absent, raises, or yields only
\* whitespace), the text returned is the empty string.
C6_EmptyOnTotalFailure ==
    (ex.pc = "done" /\ \A k \in 1..Len(Strategies) : ~Yielding(k, ex.doc, ex.avail))
        => ex.result = <<>>

IsSubSeqOfStrategies(inv) ==
    \E keep \in SUBSET (1..Len(Strategies)) :
        /\ Len(inv) = Cardinality(keep)
        /\ \A i \in 1..Len(inv) :
              \E k \in keep : /\ inv[i] = Strategies[k]
                              /\ Cardinality({j \in keep : j < k}) = i - 1

Invoked(name) == \E i \in 1..Len(ex.invoked) : ex.invoked[i] = name

WithOcr(avail, b) == [avail EXCEPT !.ocr = b]

\* C7: the strategies are invoked in order, each at most once, and one is
\* invoked only if no earlier one yielded; when PyPDF2 or pdfplumber yields,
\* OCR is not invoked and the text returned is the same with and without OCR.
C7_OcrOnlyAsLastResort ==
    ex.pc # "idle" =>
        /\ IsSubSeqOfStrategies(ex.invoked)
        /\ \A k \in 1..Len(Strategies) :
              Invoked(Strategies[k]) =>
                  \A j \in 1..(k - 1) : ~Yielding(j, ex.doc, ex.avail)
        /\ (ex.pc = "done" /\ (Yielding(1, ex.doc, ex.avail) \/ Yielding(2, ex.doc, ex.avail)))
              => /\ ~Invoked("ocr")
                 /\ ex.result = extract_text_from_pdf(ex.doc, WithOcr(ex.avail, TRUE))
                 /\ ex.result = extract_text_from_pdf(ex.doc, WithOcr(ex.avail, FALSE))

\* A scanned-looking first layer, a readable second layer, OCR installed, and
\* the call returned after pdfplumber.
C7_Witness ==
    /\ ex.pc = "done"
    /\ ex.avail.ocr
    /\ ~Yielding(1, ex.doc, ex.avail)
    /\ Yielding(2, ex.doc, ex.avail)
    /\ ex.invoked = <<"PyPDF2", "pdfplumber">>
    /\ ~IsBlank(ex.result)

(***************************************************************************)
(* extract_lab_data_with_gemini.                                           *)
(***************************************************************************)
LabReturned == lab.pc = "done" /\ api_key

\* The cleaned and sliced response text is no JSON document.
LabUnparseable ==
    lab.reply.ok /\ ~json_loads(SliceArray(CleanMarkdown(stripTokens(lab.reply.text)))).ok

\* The response parsed, to a value that is no array.
LabNotArray == lab.reply.ok /\ lab.parses = 1 /\ ~LabUnparseable /\ lab.parsed.type # "array"

\* C8: the extractor never raises; with a key it returns the empty list when
\* the service call raises, when the response does not parse, and when the
\* parsed value is no array; and it calls the service and the parser at most
\* once each.
C8_NeverRaisesOneAttempt ==
    /\ lab.outcome # "raised"
    /\ lab.calls <= 1
    /\ lab.parses <= 1
    /\ LabReturned =>
          /\ lab.outcome = "returned"
          /\ lab.calls = 1
          /\ (~lab.reply.ok \/ LabUnparseable \/ LabNotArray) => lab.data = <<>>

\* The service answered with a fenced block cut short; the one parse failed
\* and the extractor returned the empty list.
C8_Witness ==
    /\ LabReturned
    /\ LabUnparseable
    /\ lab.calls = 1
    /\ lab.parses = 1
    /\ lab.outcome = "returned"
    /\ lab.data = <<>>

\* A value of a JSON object that stands for a number: an integer, a float, a
\* numeral in a string.  hugeOk says whether an integer beyond the range of a
\* double counts.
Coercible(x, hugeOk) ==
    \/ x.type = "float"
    \/ x.type = "int" /\ (x # HugeInt \/ hugeOk)
    \/ x.type = "str" /\ x.v = "4.5"

AsNumber(x) == IF x.type = "float" THEN x ELSE FloatVal(x.v)

\* The elements of toks that have the five keys and a coercible value, in
\* order, each with its value as a number.
ValidElements(toks, hugeOk) ==
    LET objs == [i \in 1..Len(toks) |-> ObjectOf(toks[i])]
        Keep(o) == RequiredKeys \subseteq DOMAIN o /\ Coercible(o.value, hugeOk)
        kept == SelectSeq(objs, Keep)
    IN  [i \in 1..Len(kept) |-> WithFloatValue(kept[i], AsNumber(kept[i].value))]

ParsedObjects ==
    /\ lab.parses = 1
    /\ lab.parsed.type = "array"
    /\ \A i \in 1..Len(lab.parsed.items) :
          /\ lab.parsed.items[i].type = "atom"
          /\ lab.parsed.items[i].tok \in ObjectTokens

ParsedTokens == [i \in 1..Len(lab.parsed.items) |-> lab.parsed.items[i].tok]

\* C9: for a response array of objects the extractor returns the elements
\* that have all five keys and a coercible value, in order, and no others; an
\* invalid element does not cost the valid ones their place.  (An integer out
\* of the range of a double may count as coercible or not.)
C9_ExactlyInvalidExcluded ==
    (LabReturned /\ ParsedObjects) =>
        /\ lab.outcome = "returned"
        /\ \/ lab.data = ValidElements(ParsedTokens, TRUE)
           \/ lab.data = ValidElements(ParsedTokens, FALSE)

LabResultTokens == {"o1", "o2"}

\* The service answered with an array of valid lab results, bare or inside a
\* closed fenced block.
ValidArrayResponse ==
    /\ LabReturned
    /\ lab.reply.ok
    /\ lab.shape.payload.kind = "array"
    /\ \A i \in 1..Len(lab.shape.payload.elems) : lab.shape.payload.elems[i] \in LabResultTokens
    /\ lab.shape.wrap \in {"bare", "fenced", "fenced_json"}

HasBracket(toks) == Positions(toks, LBracket) \cup Positions(toks, RBracket) # {}

SummaryDone == call.fn = "calculate_lab_summary" /\ call.pc = "done"

\* Every record of the input has a string for its status, or no status.
StringStatuses == \A i \in 1..Len(call.input) : StatusOf(call.input[i]).type = "str"

\* The spellings of a bucket's name in any letter case.
Spellings(name) ==
    CASE name = "NORMAL" -> {"NORMAL", "normal", "Normal"}
      [] name = "SLIGHTLY_ABNORMAL" -> {"SLIGHTLY_ABNORMAL", "Slightly_Abnormal"}
      [] name = "CRITICAL" -> {"CRITICAL", "critical"}

NumberOf(name) ==
    Cardinality({i \in 1..Len(call.input) : StatusOf(call.input[i]).v \in Spellings(name)})

\* C11: on records whose status is a string, the summary's total is the number
\* of records and each of its three counts is the number of records whose
\* status is the bucket's name in any letter case; other statuses count in the
\* total only, and the empty list gives four zeros.
C11_SummaryCounts ==
    (SummaryDone /\ StringStatuses) =>
        /\ call.outcome = "returned"
        /\ call.summary.total_tests = Len(call.input)
        /\ call.summary.normal = NumberOf("NORMAL")
        /\ call.summary.slightly_abnormal = NumberOf("SLIGHTLY_ABNORMAL")
        /\ call.summary.critical = NumberOf("CRITICAL")
        /\ call.summary.normal + call.summary.slightly_abnormal + call.summary.critical
              <= call.summary.total_tests
        /\ call.summary = calculate_lab_summary(call.input).val

\* Two records, one "normal" in lower case and one with a status outside the
\* buckets: total 2, normal 1.
C11_Witness ==
    /\ SummaryDone
    /\ call.outcome = "returned"
    /\ Len(call.input) = 2
    /\ StatusOf(call.input[1]) = StrVal("normal")
    /\ StatusOf(call.input[2]) = StrVal("HIGH")
    /\ call.summary.normal = 1
    /\ call.summary.total_tests = 2

(***************************************************************************)
(* chat on a session id the store does not hold.                           *)
(***************************************************************************)
ChatArrives == budget'.chats < budget.chats

\* C12: a chat request for a session id that is not in the store is answered
\* with the session-not-found error; no handler goes on with it (so the
\* generation service is not called), and the store, its list objects and the
\* backing file stay as they are.
C12_UnknownSessionRefused ==
    [][ChatArrives =>
          /\ \A t \in Threads :
                threads'[t] # threads[t] => threads'[t].sid \in DOMAIN session_data
          /\ threads' = threads => last'.error \in {Required, SessionNotFound}
          /\ last'.error = SessionNotFound =>
                /\ last'.sid \notin DOMAIN session_data
                /\ last'.status = 400
                /\ UNCHANGED <<session_data, heap, disk, threads, issued, appended, completed>>
       ]_vars

\* The store holds a session, and a chat request for another id was refused.
C12_Witness ==
    /\ last.op = "chat"
    /\ last.error = SessionNotFound
    /\ last.sid \notin DOMAIN session_data
    /\ DOMAIN session_data # {}
    /\ \A t \in Threads : threads[t].pc = "idle"

(***************************************************************************)
(* save_sessions followed by load_sessions.                                *)
(***************************************************************************)
\* The records of a store with the turns of each conversation in place of
\* the list object.
RecordsOf(sd, h) ==
    [s \in DOMAIN sd |->
        IF HasHistory(sd[s])
        THEN SetKey(sd[s], "conversation_history", h[sd[s].conversation_history])
        ELSE sd[s]]

Restored(sd, h) == load_sessions(save_sessions(sd, h))

\* C13: saving the store and loading what was saved gives a mapping with the
\* same session ids and, for each, a record with the same keys and values;
\* and the store a restart finds is the one the file holds.
C13_RoundTrip ==
    /\ RecordsOf(Restored(session_data, heap).sessions, Restored(session_data, heap).heap)
          = RecordsOf(session_data, heap)
    /\ (last.op = "upload_pdf" /\ last.status = 200) =>
          RecordsOf(load_sessions(disk).sessions, load_sessions(disk).heap)
              = RecordsOf(session_data, heap)

\* An upload saved a session with chat turns and a lab result whose value is
\* a float, and the process restarted on that file.
C13_Witness ==
    /\ last.op = "restart"
    /\ disk = save_sessions(session_data, heap)
    /\ \E s \in DOMAIN session_data :
          /\ HasHistory(session_data[s])
          /\ Len(Conversation(session_data, heap, s)) >= 2
          /\ Len(session_data[s].lab_data) >= 1
          /\ session_data[s].lab_data[1].value.type = "float"

(***************************************************************************)
(* generate_gemini_response.                                               *)
(***************************************************************************)
GenDone == call.fn = "generate_gemini_response" /\ call.pc = "done"

FixedOrder == <<"gemini-2.0-flash", "gemini-1.5-flash", "gemini-1.5-pro", "gemini-pro">>

\* The models that do not fail, by their place in the fixed order.
Working == {i \in 1..Len(FixedOrder) : FixedOrder[i] \notin call.failing}

\* C14: the models are called in the fixed order, each with the same prompt,
\* and model k only after every earlier model failed; the reply is the text of
\* the first model that does not fail, and no model is called after it.
C14_ModelsInOrder ==
    call.fn = "generate_gemini_response" =>
        /\ Len(call.invoked) <= Len(FixedOrder)
        /\ \A i \in 1..Len(call.invoked) :
              /\ call.invoked[i].model = FixedOrder[i]
              /\ call.invoked[i].prompt = <<call.language>> \o call.message
              /\ \A j \in 1..(i - 1) : FixedOrder[j] \in call.failing
        /\ (GenDone /\ call.key /\ Working # {}) =>
              /\ call.result.outcome = "returned"
              /\ call.result.kind = "reply"
              /\ call.result.model = FixedOrder[Min(Working)]
              /\ Len(call.invoked) = Min(Working)
        /\ GenDone =>
              /\ call.result = generate_gemini_response(call.key, call.failing)
              /\ [i \in 1..Len(call.invoked) |-> call.invoked[i].model] = call.result.invoked

\* The first two models failed and the third answered: three calls, the reply
\* that of gemini-1.5-pro.
C14_Witness ==
    /\ GenDone
    /\ call.key
    /\ call.failing = {"gemini-2.0-flash", "gemini-1.5-flash"}
    /\ Len(call.invoked) = 3
    /\ call.result.kind = "reply"
    /\ call.result.model = "gemini-1.5-pro"

\* The conversation of session s holds the user turn of request req and
\* response as its assistant turn.
PairWritten(s, req, response) ==
    LET c == Conversation(session_data, heap, s)
    IN  /\ \E i \in 1..Len(c) : c[i].role = "user" /\ c[i].req = req
        /\ \E i \in 1..Len(c) :
              c[i].role = "assistant" /\ c[i].req = req /\ c[i].content = response

\* C15: generate_gemini_response does not raise: no chat request is answered
\* with an error of the models.  With every model failing its result is the
\* apology, without a key the not-configured message and no model called; the
\* handler goes on with either, and when the request returns success the
\* conversation holds its user turn and the message as its assistant turn.
C15_FallbackMessages ==
    /\ last.error # ModelError
    /\ generate_gemini_response(api_key, ModelSet).outcome = "returned"
    /\ generate_gemini_response(api_key, ModelSet).kind =
          (IF api_key THEN "apology" ELSE "not_configured")
    /\ ~api_key => generate_gemini_response(api_key, {}).invoked = <<>>
    /\ \A t \in Threads :
          threads[t].pc \in {"append_user", "append_assistant", "check_len", "slice",
                             "write_back"} =>
              /\ threads[t].response \in {"reply", "apology", "not_configured"}
              /\ threads[t].response = "not_configured" <=> ~api_key
    /\ (last.op = "chat" /\ last.status = 200) =>
          /\ \E r \in {"reply", "apology", "not_configured"} :
                PairWritten(last.sid, last.req, r)
          /\ ~api_key => PairWritten(last.sid, last.req, "not_configured")

\* With a key and every model failing, a chat request got the apology and
\* returned success with the apology in the conversation.
C15_Witness ==
    /\ last.op = "chat"
    /\ last.status = 200
    /\ api_key
    /\ PairWritten(last.sid, last.req, "apology")

(***************************************************************************)
(* export_results.                                                         *)
(***************************************************************************)
ExportDone == call.fn = "export_results" /\ call.pc = "done"

CsvSpellings == {"csv", "CSV", "Csv"}
PdfSpellings == {"pdf", "PDF"}

\* C16: a format that is neither csv nor pdf in any letter case is answered
\* with the invalid-format error and no formatter is called; csv and pdf in any
\* case call their own formatter and no other; and a session id the store does
\* not hold is answered with not found, the format not examined.
C16_UnknownFormatRejected ==
    ExportDone =>
        /\ call.session_id \notin DOMAIN session_data =>
              /\ call.status = 404
              /\ call.error = ExportNotFound
              /\ ~call.examined
              /\ call.invoked = <<>>
        /\ (call.session_id \in DOMAIN session_data
            /\ call.format \notin CsvSpellings \cup PdfSpellings) =>
              /\ call.status = 400
              /\ call.error = InvalidFormat
              /\ call.invoked = <<>>
        /\ (call.session_id \in DOMAIN session_data /\ call.format \in CsvSpellings) =>
              call.invoked = <<"export_results_csv">>
        /\ (call.session_id \in DOMAIN session_data /\ call.format \in PdfSpellings) =>
              call.invoked = <<"export_results_pdf">>

\* An export of an existing session as xml was refused.
C16_Witness ==
    /\ ExportDone
    /\ call.session_id \in DOMAIN session_data
    /\ call.format = "xml"
    /\ call.status = 400
    /\ call.invoked = <<>>

(***************************************************************************)
(* Chat after ingestion.                                                   *)
(***************************************************************************)
\* C17: a chat request with a non-empty message on a session the store holds
\* (every record is the product of a successful ingestion) is answered with a
\* reply, status 200, never with an error.
C17_ChatAfterIngestion ==
    (/\ last.op = "chat"
     /\ last.status # 0
     /\ last.error # Required
     /\ last.sid \in DOMAIN session_data)
        => last.status = 200

(***************************************************************************)
(* Rejected ingestion.                                                     *)
(***************************************************************************)
\* The requests the specification says are rejected: no file part, an empty
\* file name, a name not ending in .pdf, or no text but whitespace extracted.
Rejected(r) ==
    \/ ~r.file.present
    \/ r.file.filename = ""
    \/ r.file.filename \notin {"a.pdf", "B.PDF"}
    \/ strip(extract_text_from_pdf(r.doc, LibrariesPresent)) = <<>>

LeavesStore ==
    /\ last'.status = 400
    /\ ~last'.extracted
    /\ UNCHANGED <<session_data, heap, disk, issued>>

\* C18: a step of either ingestion handler on a request that is rejected
\* answers 400, leaves every session record and the list objects as they
\* were, does not write the backing file and does not call the structured
\* extraction.
C18_RejectedIngestionLeavesStore ==
    [][\A r \in UploadRequests, sid \in SessionIds :
          (/\ Rejected(r)
           /\ \/ upload_pdf(sid, r.file, r.doc, r.reply)
              \/ upload_medical_report(sid, r.file, r.doc, r.reply))
             => LeavesStore]_vars

\* An upload was refused while the store held a session.
C18_Witness ==
    /\ last.op \in {"upload_pdf", "upload"}
    /\ last.status = 400
    /\ session_data # <<>>

(***************************************************************************)
(* The file name and the upload time of a record.                          *)
(***************************************************************************)
\* C19: in no step does a record that exists before and after it get another
\* filename or another upload time.
C19_NameAndTimeSetOnce ==
    [][\A s \in DOMAIN session_data \cap DOMAIN session_data' :
          /\ session_data'[s].filename = session_data[s].filename
          /\ session_data'[s].upload_time = session_data[s].upload_time]_vars

(***************************************************************************)
(* load_sessions on any file.                                              *)
(***************************************************************************)
LoadDone == call.fn = "load_sessions" /\ call.pc = "done"

\* C20: when the file is missing, cannot be read or does not hold a
\* serialized mapping, load_sessions returns (it has no step that raises) and
\* session_data is then the empty dict.
C20_LoadIsBestEffort ==
    (LoadDone /\ disk.kind # "file")
        => (call.type = "dict" /\ session_data = <<>>)

(***************************************************************************)
(* clear_session.                                                          *)
(***************************************************************************)
\* The store without the record of session s.
Without(sd, s) == [t \in DOMAIN sd \ {s} |-> sd[t]]

\* C21: every clear_session request is answered with the acknowledgement
\* (status 200); the store afterwards is the store before without the record
\* of the session the request names, every other record as it was, so that a
\* chat or get_lab_results request for that session finds no record.
C21_ClearRemovesNamedOnly ==
    [][\A body \in ClearBodies :
          clear_session(body) =>
             /\ last'.status = 200
             /\ session_data' = Without(session_data, body.session_id)
             /\ SessionMissing(body.session_id, session_data')]_vars

(***************************************************************************)
(* Elements of the response array that are no objects.                     *)
(***************************************************************************)
IsObjectItem(item) == item.type = "atom" /\ item.tok \in ObjectTokens

\* The objects among the elements of the parsed array, in order.
ObjectItemTokens ==
    LET objs == SelectSeq(lab.parsed.items, IsObjectItem)
    IN  [i \in 1..Len(objs) |-> objs[i].tok]

\* The response parsed to an array with an element that is no object, and no
\* object of it holds an integer out of the range of a double.
ParsedWithNonObject ==
    /\ lab.parses = 1
    /\ lab.parsed.type = "array"
    /\ \E i \in 1..Len(lab.parsed.items) : ~IsObjectItem(lab.parsed.items[i])
    /\ \A i \in 1..Len(ObjectItemTokens) : ObjectItemTokens[i] # "oHuge"

\* C22: when the parsed array holds an element that is no object (null, a
\* number, a string, a nested array), the extractor returns the valid objects
\* of the array, in order: only the element that is no object is dropped.
C22_NonObjectDroppedAlone ==
    (LabReturned /\ ParsedWithNonObject) =>
        /\ lab.outcome = "returned"
        /\ lab.data = ValidElements(ObjectItemTokens, TRUE)

(***************************************************************************)
(* calculate_lab_summary on what the extractor returns.                    *)
(***************************************************************************)
\* The list passed is one the extractor can return: every record has the
\* five keys; the status is whatever the service wrote.
ExtractorList == \A i \in 1..Len(call.input) : RequiredKeys \subseteq DOMAIN call.input[i]

\* C23: on every list the extractor can return, records with a status that is
\* no string included, calculate_lab_summary returns counts, counts every
\* record in the total and leaves the list as it was passed.
C23_SummaryTotalOnAnyStatus ==
    (SummaryDone /\ ExtractorList) =>
        /\ call.outcome = "returned"
        /\ call.summary.total_tests = Len(call.input)
        /\ call.lab_data = call.input

(***************************************************************************)
(* Where the records returned come from.                                   *)
(***************************************************************************)
LabDone == lab.pc = "done"

\* Record rec is the object of element item of the parsed array, its value
\* made a number.
SameButValue(rec, item) ==
    /\ IsObjectItem(item)
    /\ DOMAIN rec = DOMAIN ObjectOf(item.tok)
    /\ \A k \in DOMAIN rec \ {"value"} : rec[k] = ObjectOf(item.tok)[k]

\* The records returned are elements of the parsed array, in its order.
SubListOfParsed ==
    /\ lab.parses = 1
    /\ lab.parsed.type = "array"
    /\ \E f \in [1..Len(lab.data) -> 1..Len(lab.parsed.items)] :
          /\ \A i, j \in 1..Len(lab.data) : i < j => f[i] < f[j]
          /\ \A i \in 1..Len(lab.data) : SameButValue(lab.data[i], lab.parsed.items[f[i]])

\* C24: the records returned are an order-preserving sub-list of the array
\* parsed from the response to this call; when the service was not called
\* (no API key) no record is returned.
C24_ResultsFromResponseOnly ==
    LabDone =>
        /\ lab.data # <<>> => SubListOfParsed
        /\ lab.calls = 0 => lab.data = <<>>

(***************************************************************************)
(* The shape of a conversation under requests one at a time.               *)
(***************************************************************************)
\* The turns take the roles user, assistant, user, ... from the first on.
Alternates(c) ==
    \A i \in 1..Len(c) : c[i].role = IF i % 2 = 1 THEN "user" ELSE "assistant"

\* A handler has appended the user's turn to the list of session s and not
\* yet the reply.
BetweenAppends(s) ==
    \E t \in Threads :
        /\ threads[t].pc = "append_assistant"
        /\ threads[t].conv = session_data[s].conversation_history

\* C25: under requests one at a time, the conversation of every session
\* alternates user, assistant from a user turn on, and has even length except
\* while the one handler in flight is between its two appends; so it is of
\* even length whenever no request is in flight, truncation included.
C25_ConversationAlternates ==
    \A s \in SessionsWithHistory :
        LET c == Conversation(session_data, heap, s)
        IN  /\ Alternates(c)
            /\ Len(c) % 2 = 1 => BetweenAppends(s)
            /\ NoChatInFlight => Len(c) % 2 = 0

\* A chat request returned after its conversation was cut to the cap: the
\* first turn kept is no longer the first turn appended.
C25_Witness ==
    /\ NoChatInFlight
    /\ last.op = "chat"
    /\ last.status = 200
    /\ last.sid \in SessionsWithHistory
    /\ LET c == Conversation(session_data, heap, last.sid)
       IN  /\ Len(c) = HistoryCap
           /\ c[1].role = "user"
           /\ c[1].req > 1

(***************************************************************************)
(* A chat request racing with clear_session.                               *)
(***************************************************************************)
\* Handler t, past the existence check of app.py:230, takes the step.
ChatStep(t) ==
    /\ threads[t].pc # "idle"
    /\ threads'[t] # threads[t]
    /\ last'.op = "chat"

\* C26: a step of a chat handler never adds a session to the store; and the
\* handler whose session was cleared after its existence check answers, at the
\* first statement that needs the record (the write-back at the latest), with
\* the error response of status 500, the session still absent: the exception
\* does not leave the handler.
C26_ChatNeverRecreates ==
    [][\A t \in Threads :
          ChatStep(t) =>
             /\ DOMAIN session_data' = DOMAIN session_data
             /\ (threads[t].pc = "write_back" /\ SessionMissing(threads[t].sid, session_data))
                   => /\ threads'[t].pc = "idle"
                      /\ last' = Op("chat", threads[t].sid, threads[t].req, 500)
             /\ (threads'[t].pc = "idle"
                 /\ SessionMissing(threads[t].sid, session_data))
                   => last'.status = 500]_vars

\* A chat request passed the existence check, its session was cleared, the
\* handler appended its turns to the list it held and was answered with the
\* error response at the write-back; the session is absent.
C26_Witness ==
    /\ last.op = "chat"
    /\ last.status = 500
    /\ last.sid \in issued
    /\ last.sid \notin DOMAIN session_data
    /\ appended[last.sid] # <<>>
    /\ budget.clears < MaxClears
    /\ NoChatInFlight

====
